---- MODULE Spec2Model ----
(***************************************************************************)
(* Verification model of server-core: the cluster coordinator and the      *)
(* scheduler that uses its locks (SpecCluster, and SpecFailover for a      *)
(* holder that fails), the leaky-bucket rate limiter (SpecBucket), the     *)
(* crawler ban list (SpecCrawler) and the request pipeline of the HTTP     *)
(* server (SpecServer).  Parts of the server are also followed on their    *)
(* own: the route registry (SpecRoute), session tokens (SpecToken),        *)
(* handler.Handler and the Response (SpecHandler), one run of a scheduler  *)
(* task (SpecRetry), the composed middleware chain (SpecChain, and         *)
(* SpecProbe with the probe path), the session store (SpecSession), the IP *)
(* matcher (SpecIP), Cluster.Leave (SpecDepart), repeated Server.Stop      *)
(* (SpecStop), the collector's mutex (SpecLocking), the stale-node sweep   *)
(* of the cluster (SpecGC), the log queue (SpecLog), concurrent charges of *)
(* one bucket (SpecRace), Start after Stop (SpecRestart) and Permissions   *)
(* (SpecPerm).                                                             *)
(***************************************************************************)
EXTENDS Integers, Sequences, FiniteSets, TLC

(***************************************************************************)
(* Bounds of the model.                                                    *)
(***************************************************************************)
\* nodes joined to the "scheduler" cluster; node ids come from HInc, 1..n
MaxNodes == 2
\* cron firings of the task that each node sees
MaxFirings == 2
\* last instant (seconds) of the cluster clock
MaxTime == 4
\* backend (Redis) operations that may fail in one behaviour
MaxFailures == 1
\* Task.MaxRetry of the registered task
MaxRetry == 2
\* resolution of the wall clock of the rate limiter and the server: ticks per
\* second (time.Duration counts whole ticks)
Second == 4
\* last instant (ticks) of that clock
MaxNow == 6
\* rates (tokens per second) and capacities of a bucket, amounts of one Add
MaxRate == 3
MaxCapacity == 3
MaxAmount == 2
\* Add calls on the bucket in one behaviour
MaxCalls == 5
MaxBan == 2
MaxRequests == 3
MaxInFlight == 1
\* methods of the module handed to RegisterRoute
MaxMethods == 3

(***************************************************************************)
(* Program constants.                                                      *)
(***************************************************************************)
\* cluster/protocol.go: lockTTL = time.Second * 3 (cluster clock in seconds)
lockTTL == 3

Nodes == 1..MaxNodes
Firings == 1..MaxFirings
\* the goroutines cron starts: one per node and firing
Jobs == Nodes \X Firings
\* Task.Name, which runOnCluster uses as the lock name
TaskName == "task"
LockNames == {TaskName}
NoLock == [NodeId |-> 0, exp |-> 0]
NoJob == 0

Rates == 1..MaxRate
Capacities == 1..MaxCapacity
Amounts == 1..MaxAmount
IPs == {"10.0.0.1", "10.0.0.2"}
NoBan == -1
NoCall == [ip |-> "none"]
Requests == 1..MaxRequests
NoRequest == [pc |-> "none"]
NoCollector == [on |-> FALSE]

VARIABLES
  ctime,        \* cluster clock, seconds
  locks,        \* Redis keys cluster:scheduler:locks:<name>: the sharedLock record and its expiry
  activeLocks,  \* Cluster.activeLocks of each node
  mutex,        \* the package-level mutex of each node's process: the firing that holds it
  jpc,          \* position of each cron goroutine in runJob
  attempts,     \* runWithRetry's attempts of each cron goroutine
  lockErr,      \* what Cluster.Lock returned to each cron goroutine
  ran,          \* how many times each cron goroutine invoked Task.Job
  ppc,          \* position of each node's ping goroutine
  snap,         \* the slice header ping's range loop iterates over
  idx,          \* index of ping's range loop
  nextLock,     \* next instant at which lockTimer fires on each node
  failures,     \* backend failures still to come
  unlocked,     \* per lock name: the node whose Unlock returned nil last, 0 once re-acquired
  freeAtGet,    \* per cron goroutine: its Lock call, begun after another node's Unlock returned nil and before any
                \* node acquired the lock again, found the record present
  alive,        \* per node: "up", "left" once Leave closed the stop channel, "crashed"
  now,          \* wall clock of the rate limiter and the server, ticks
  bucket,       \* a LeakyBucket: rate, capacity and p
  calls,        \* the Add calls made on it: instant, amount, result, p before and after
  banDuration,  \* Config.Security.BanDuration, ticks
  bannedIPs,    \* package security: the instant each IP was banned at, NoBan if it is not in the map
  detected,     \* per IP: the instant IsCrawler last returned true for a user-agent or URL match
  lastCall,     \* the latest IsCrawler call: its arguments, instant, result, and the IP's ban before and after
  cfg,          \* Server.Config: Security.URLScanner, Security.BruteForce (Enabled, Rate, Capacity)
  middlewares,  \* package server: the registered middlewares, in registration order
  spc,          \* the server: "new", "serving", then Stop's position "shutdown", "waiting" (and since when), "stopped"
  active,       \* Server.active, the WaitGroup counter
  req,          \* the requests: position in Server.handler, IP, path, chain, status, phases run so far
  collector,    \* package security: the Collector (buckets map, heap), and the next instant of its ticker
  lb,           \* the LeakyBucket objects allocated by the Collector
  trapped,      \* per IP: the instant its latest GET /honeypot was answered
  started,      \* the instant the first request arrived
  module,       \* the platform.Module handed to RegisterRoute: whether it is a Service, its methods as enumerated
  registry,     \* package server: routes[serviceName], the handlers registered for the module
  regErr,       \* what RegisterRoute returned: "none" before the call, "nil", "duplicate"
  genuine,      \* the session token newToken returned
  token,        \* the string Valid is called on: that token, or an altered copy of it
  valid,        \* what Valid returned for it
  outputEncoder,\* package server: the registered encoders, MIME type to encoder function
  accept,       \* the Accept header of the request
  resp,         \* the Response of the request, with what reached the http.ResponseWriter
  hret,         \* what handler.Handler returned: "none" before the call, "nil", or the error
  outEncoder,   \* the encoder handler.Handler invoked, "none" if it invoked none
  called,       \* what the route method did when handler.Handler called it, NoCallYet if it was not called
  task,         \* the scheduler Task of a single run: MaxRetry, whether it has a Cluster
  run,          \* that run of runJob: position, runWithRetry's attempts, what each invocation of Job returned, result
  security,     \* Config of the server whose chain is followed call by call: Security, EnableTracing, TraceRequired
  installed,    \* the middlewares that server has registered, in registration order
  exchange,     \* the request Server.handler served last there, and what came of it
  sconfig,      \* package session: config, with the TTL in seconds
  kv,           \* the cache backend of the session store: per key whether it is present, the JSON stored, its expiry
  stime,        \* the clock of that backend, seconds
  acked,        \* per session id: the session of the latest Set the backend acknowledged, until an acknowledged Del
  last,         \* the latest call on the session store and what it returned
  ipList,       \* the list of patterns handed to CheckIP
  candidate,    \* the ip handed to CheckIP
  matched,      \* what CheckIP returned: "none" before the call, "true", "false"
  nodeEntry,    \* the field of the cluster hash that holds the node's nodeInfo: whether it is present
  subscription, \* the node's pubSub: "open", "closed"
  stop,         \* the node's stop channel: "open", "closed"
  ticks,        \* the tickers of the node's ping goroutine whose channel holds a tick
  gpc,          \* position of the node's ping goroutine: "select", the case it took, "returned"
  held,         \* whether the node has an entry in activeLocks
  leaveErr,     \* what Leave returned: "none" before the call, "nil", "error"
  since,        \* what the ping goroutine did after Leave returned nil
  listener,     \* the listener of httpServer: "open", "closed"
  serving,      \* Server.active: the calls of Server.handler that have not returned
  startedFlag,  \* Server.started
  stopping,     \* the Stop call in progress: its position, what Shutdown returned, when the wait began
  stops,        \* per completed Stop call: what it returned and the state it left
  sclock,       \* wall clock of that server, ticks
  owner,        \* the goroutines that hold Collector.lock
  gpos,         \* per goroutine: where it is in Collector.Add, Collector.Remove or removeEmptyBuckets
  gclock,       \* clock of the cluster whose node table is followed, ticks of ten seconds
  members,      \* the cluster hash: per node id whether the field is present and the LastSeen stored
  counter,      \* whether the hash holds the field nodeId
  running,      \* per node: whether its process runs
  nextPing,     \* per node: the next instant of its ticker timer
  nextGC,       \* per node: the next instant of its ticker gcTimer
  pass,         \* per node: where its ping goroutine is in the gcTimer case, since when, and what HGetAll returned
  gcLocks,      \* per node: whether activeLocks holds cluster-gc
  lastPass,     \* the latest pass that ran to its end: the node, its now, the records it read, the fields it deleted
  outage,       \* failures of HGetAll still to come
  logLevel,     \* package log: the level filter
  testMode,     \* package log: whether Fatal leaves the process running
  queue,        \* package log: the entries in the channel, oldest first
  sendq,        \* the producers blocked on the full channel, with their entries, in the order they arrived
  written,      \* the ids of the entries written to the sink, in the order of the writes
  offered,      \* the ids of the entries that passed the level filter, in the order they were logged
  exited,       \* whether the process has exited
  shared,       \* the LeakyBucket several goroutines charge: rate, capacity and p
  rnow,         \* the clock its users read, ticks
  adding,       \* per goroutine: where it is in LeakyBucket.Add, the amount, the count and the p it read
  admissions,   \* the amounts admitted so far, one per Add call that returned, in the order of the returns
  mwList,       \* the package-level slice UseMiddleware appends to
  lifecycle,    \* the server: new, starting, serving or stopped, its brute-force setting, Start calls made
  avail,        \* per client: the tokens its bucket still admits
  lastReq,      \* the request served last: handled, charges made, access-log lines written
  perms,        \* a Permissions value: the slice, in order
  inForce,      \* the permissions granted and not revoked afterwards
  permPanic     \* a Revoke call panicked

clusterVars == <<ctime, locks, activeLocks, mutex, jpc, attempts, lockErr, ran,
                 ppc, snap, idx, nextLock, failures, unlocked, freeAtGet>>

bucketVars == <<bucket, calls>>

crawlerVars == <<banDuration, bannedIPs, detected, lastCall>>

serverVars == <<cfg, middlewares, spc, active, req, collector, lb, trapped, started>>

routeVars == <<module, registry, regErr>>

\* the state of the library functions that are exercised on their own
tokenVars == <<genuine, token, valid>>

handlerVars == <<outputEncoder, accept, resp, hret, outEncoder, called>>

retryVars == <<task, run>>

chainVars == <<security, installed, exchange>>

sessionVars == <<sconfig, kv, stime, acked, last>>

ipVars == <<ipList, candidate, matched>>

departVars == <<nodeEntry, subscription, stop, ticks, gpc, held, leaveErr, since>>

stopVars == <<listener, serving, startedFlag, stopping, stops, sclock>>

lockingVars == <<owner, gpos>>

gcVars == <<gclock, members, counter, running, nextPing, nextGC, pass, gcLocks, lastPass, outage>>

logVars == <<logLevel, testMode, queue, sendq, written, offered, exited>>

raceVars == <<shared, rnow, adding, admissions>>

restartVars == <<mwList, lifecycle, avail, lastReq>>

permVars == <<perms, inForce, permPanic>>

libVars == <<routeVars, tokenVars, handlerVars, retryVars, chainVars, sessionVars, ipVars, departVars, stopVars, lockingVars, gcVars, logVars, raceVars, restartVars, permVars>>

vars == <<clusterVars, alive, now, bucketVars, crawlerVars, serverVars, libVars>>

notCluster == <<alive, now, bucketVars, crawlerVars, serverVars, libVars>>
notBucket == <<clusterVars, alive, crawlerVars, serverVars, libVars>>
notCrawler == <<clusterVars, alive, bucketVars, serverVars, libVars>>
notServer == <<clusterVars, alive, bucketVars, detected, lastCall, libVars>>
notFailover == <<now, bucketVars, crawlerVars, serverVars, libVars>>
coreVars == <<clusterVars, alive, now, bucketVars, crawlerVars, serverVars>>
notRoute == <<coreVars, tokenVars, handlerVars, retryVars, chainVars, sessionVars, ipVars, departVars, stopVars, lockingVars, gcVars, logVars, raceVars, restartVars, permVars>>
notToken == <<coreVars, routeVars, handlerVars, retryVars, chainVars, sessionVars, ipVars, departVars, stopVars, lockingVars, gcVars, logVars, raceVars, restartVars, permVars>>
notHandler == <<coreVars, routeVars, tokenVars, retryVars, chainVars, sessionVars, ipVars, departVars, stopVars, lockingVars, gcVars, logVars, raceVars, restartVars, permVars>>
notRetry == <<coreVars, routeVars, tokenVars, handlerVars, chainVars, sessionVars, ipVars, departVars, stopVars, lockingVars, gcVars, logVars, raceVars, restartVars, permVars>>
notChain == <<coreVars, routeVars, tokenVars, handlerVars, retryVars, sessionVars, ipVars, departVars, stopVars, lockingVars, gcVars, logVars, raceVars, restartVars, permVars>>
notSession == <<coreVars, routeVars, tokenVars, handlerVars, retryVars, chainVars, ipVars, departVars, stopVars, lockingVars, gcVars, logVars, raceVars, restartVars, permVars>>
notIP == <<coreVars, routeVars, tokenVars, handlerVars, retryVars, chainVars, sessionVars, departVars, stopVars, lockingVars, gcVars, logVars, raceVars, restartVars, permVars>>
notDepart == <<coreVars, routeVars, tokenVars, handlerVars, retryVars, chainVars, sessionVars, ipVars, stopVars, lockingVars, gcVars, logVars, raceVars, restartVars, permVars>>
notStop == <<coreVars, routeVars, tokenVars, handlerVars, retryVars, chainVars, sessionVars, ipVars, departVars, lockingVars, gcVars, logVars, raceVars, restartVars, permVars>>
notLocking == <<coreVars, routeVars, tokenVars, handlerVars, retryVars, chainVars, sessionVars, ipVars, departVars, stopVars, gcVars, logVars, raceVars, restartVars, permVars>>
notGC == <<coreVars, routeVars, tokenVars, handlerVars, retryVars, chainVars, sessionVars, ipVars, departVars, stopVars, lockingVars, logVars, raceVars, restartVars, permVars>>
notLog == <<coreVars, routeVars, tokenVars, handlerVars, retryVars, chainVars, sessionVars, ipVars, departVars, stopVars, lockingVars, gcVars, raceVars, restartVars, permVars>>
notRace == <<coreVars, routeVars, tokenVars, handlerVars, retryVars, chainVars, sessionVars, ipVars, departVars, stopVars, lockingVars, gcVars, logVars, restartVars, permVars>>
notRestart == <<coreVars, routeVars, tokenVars, handlerVars, retryVars, chainVars, sessionVars, ipVars, departVars, stopVars, lockingVars, gcVars, logVars, raceVars, permVars>>
notPerm == <<coreVars, routeVars, tokenVars, handlerVars, retryVars, chainVars, sessionVars, ipVars, departVars, stopVars, lockingVars, gcVars, logVars, raceVars, restartVars>>

\* the rate limiter when nothing has used it
BucketUnused ==
  /\ bucket = [rate |-> 1, capacity |-> 1, p |-> 0]
  /\ calls = <<>>

\* the ban list when nothing has used it
CrawlerUnused ==
  /\ banDuration = 0
  /\ bannedIPs = [ip \in IPs |-> NoBan]
  /\ detected = [ip \in IPs |-> NoBan]
  /\ lastCall = NoCall

\* no module registered
RouteUnused ==
  /\ module = [service |-> FALSE, methods |-> <<>>]
  /\ registry = <<>>
  /\ regErr = "none"

\* no token generated
TokenUnused ==
  /\ genuine = <<>>
  /\ token = <<>>
  /\ valid = FALSE

\* the encoders registered by the package's init, no request
EncodersAtInit ==
  [mime \in {"text/xml", "text/json", "application/json"} |->
     IF mime = "text/xml" THEN "xmlOutputEncoder" ELSE "jsonOutputEncoder"]

\* newResponse; sent is what the http.ResponseWriter put on the wire: the
\* status code and the Content-Type header at that moment
NewResponse == [Status |-> 0, Size |-> 0, Committed |-> FALSE, sent |-> <<>>, contentType |-> "", body |-> <<>>]

NoCallYet == [writes |-> "not called"]

HandlerUnused ==
  /\ outputEncoder = EncodersAtInit
  /\ accept = <<>>
  /\ resp = NewResponse
  /\ hret = "none"
  /\ outEncoder = "none"
  /\ called = NoCallYet

\* no task run on its own
NoRun == [pc |-> "idle", attempts |-> 0, outcomes |-> <<>>, result |-> "none"]

RetryUnused ==
  /\ task = [MaxRetry |-> 0, Cluster |-> FALSE]
  /\ run = NoRun

\* no request served
NoExchange == [served |-> FALSE]

\* the zero Config, nothing registered
NoSecurity ==
  [EnableTracing |-> FALSE, TraceRequired |-> FALSE, Whitelist |-> {}, Blacklist |-> {},
   URLScanner |-> FALSE, CSRFTokenRequired |-> FALSE, BruteForce |-> FALSE]

ChainUnused ==
  /\ security = NoSecurity
  /\ installed = <<>>
  /\ exchange = NoExchange

\* the keys the backend may hold: a key is a sequence of pieces of text
BackendKeys == {<<id>> : id \in {"t1", "t2"}} \cup {<<"session:", id>> : id \in {"t1", "t2"}}

NoEntry == [present |-> FALSE, raw |-> <<>>, exp |-> 0]
NoAck == [present |-> FALSE]

\* the session store on an empty backend
SessionUnused ==
  /\ sconfig = [TTL |-> 0]
  /\ kv = [k \in BackendKeys |-> NoEntry]
  /\ stime = 0
  /\ acked = [id \in {"t1", "t2"} |-> NoAck]
  /\ last = [op |-> "none"]

\* CheckIP not called
IPUnused ==
  /\ ipList = <<>>
  /\ candidate = <<>>
  /\ matched = "none"

\* no node whose departure is followed
DepartUnused ==
  /\ nodeEntry = FALSE
  /\ subscription = "none"
  /\ stop = "none"
  /\ ticks = {}
  /\ gpc = "none"
  /\ held = FALSE
  /\ leaveErr = "none"
  /\ since = {}

\* no server whose Stop calls are followed
StopUnused ==
  /\ listener = "none"
  /\ serving = 0
  /\ startedFlag = FALSE
  /\ stopping = [pc |-> "none"]
  /\ stops = <<>>
  /\ sclock = 0

\* no goroutine of a collector is followed
LockingUnused ==
  /\ owner = {}
  /\ gpos = <<>>

\* no node table is followed
GCUnused ==
  /\ gclock = 0
  /\ members = <<>>
  /\ counter = FALSE
  /\ running = <<>>
  /\ nextPing = <<>>
  /\ nextGC = <<>>
  /\ pass = <<>>
  /\ gcLocks = <<>>
  /\ lastPass = [by |-> 0]
  /\ outage = 0

\* no logger is followed
LogUnused ==
  /\ logLevel = 0
  /\ testMode = FALSE
  /\ queue = <<>>
  /\ sendq = <<>>
  /\ written = <<>>
  /\ offered = <<>>
  /\ exited = FALSE

\* no shared bucket is followed
RaceUnused ==
  /\ shared = [rate |-> 0]
  /\ rnow = 0
  /\ adding = <<>>
  /\ admissions = <<>>

\* no server is restarted
RestartUnused ==
  /\ mwList = <<>>
  /\ lifecycle = [at |-> "unused"]
  /\ avail = <<>>
  /\ lastReq = [served |-> FALSE]

\* no Permissions value is followed
PermUnused ==
  /\ perms = <<>>
  /\ inForce = {}
  /\ permPanic = FALSE

LibUnused == RouteUnused /\ TokenUnused /\ HandlerUnused /\ RetryUnused /\ ChainUnused /\ SessionUnused /\ IPUnused /\ DepartUnused /\ StopUnused /\ LockingUnused /\ GCUnused /\ LogUnused /\ RaceUnused /\ RestartUnused /\ PermUnused

\* the server before New
ServerUnused ==
  /\ cfg = [urlScanner |-> FALSE, bruteForce |-> FALSE, rate |-> 1, capacity |-> 1]
  /\ middlewares = <<>>
  /\ spc = [at |-> "new", since |-> 0]
  /\ active = 0
  /\ req = [r \in Requests |-> NoRequest]
  /\ collector = NoCollector
  /\ lb = <<>>
  /\ trapped = [ip \in IPs |-> NoBan]
  /\ started = 0

(***************************************************************************)
(* Helpers on sequences.                                                   *)
(***************************************************************************)
Range(s) == {s[i] : i \in 1..Len(s)}

\* index of the first element equal to x, 0 when there is none
IndexOf(s, x) ==
  IF x \in Range(s) THEN CHOOSE i \in 1..Len(s) : s[i] = x /\ \A j \in 1..(i-1) : s[j] # x
  ELSE 0

\* s without its i-th element
RemoveAt(s, i) == SubSeq(s, 1, i-1) \o SubSeq(s, i+1, Len(s))

(***************************************************************************)
(* The Redis backend: keys with a TTL.                                     *)
(***************************************************************************)
\* cache.Get(key, &lock) followed by !lock.Time.IsZero(): a record is seen
\* only when the read succeeds and the key exists
RecordSeen(name, readOk) == readOk /\ locks[name] # NoLock

\* cache.Set(key, lock, lockTTL) by node n at the current instant
SetRecord(name, n) == [locks EXCEPT ![name] = [NodeId |-> n, exp |-> ctime + lockTTL]]

\* cache.Del(key)
DelRecord(name) == [locks EXCEPT ![name] = NoLock]

\* outcomes of one backend call: it succeeds, or fails while failures remain
Outcomes == IF failures > 0 THEN {TRUE, FALSE} ELSE {TRUE}
Spend(ok) == IF ok THEN failures ELSE failures - 1

(***************************************************************************)
(* Cluster.Lock, as the cron goroutine <<n, f>> runs it.                   *)
(***************************************************************************)
\* a Lock call ends: the mutex is released (defer) and runOnCluster goes on
LockReturns(j, err) ==
  /\ mutex' = [mutex EXCEPT ![j[1]] = NoJob]
  /\ lockErr' = [lockErr EXCEPT ![j] = err]
  /\ jpc' = [jpc EXCEPT ![j] = IF err = "nil" THEN "job" ELSE "done"]

\* cron fires the entry: runJob, task.Cluster already joined, runOnCluster
Fire(j) ==
  /\ jpc[j] = "idle"
  /\ IF j[2] = 1 THEN TRUE ELSE jpc[<<j[1], j[2] - 1>>] # "idle"
  /\ jpc' = [jpc EXCEPT ![j] = "lock"]
  /\ UNCHANGED <<ctime, locks, activeLocks, mutex, attempts, lockErr, ran,
                 ppc, snap, idx, nextLock, failures, unlocked, freeAtGet>>

\* a Lock that does not scan activeLocks and goes by the record alone
LockCheckUnscanned(j) ==
  /\ jpc[j] = "lock"
  /\ mutex[j[1]] = NoJob
  /\ \E readOk \in Outcomes :
       /\ failures' = Spend(readOk)
       /\ IF RecordSeen(TaskName, readOk)
          THEN /\ LockReturns(j, "held")
               /\ freeAtGet' = [freeAtGet EXCEPT
                                  ![j] = unlocked[TaskName] \notin {0, j[1]}]
          ELSE /\ mutex' = [mutex EXCEPT ![j[1]] = j[2]]
               /\ jpc' = [jpc EXCEPT ![j] = "lock_set"]
               /\ UNCHANGED <<lockErr, freeAtGet>>
  /\ UNCHANGED <<ctime, locks, activeLocks, attempts, ran,
                 ppc, snap, idx, nextLock, unlocked>>

\* mutex.Lock(), the scan of activeLocks for the name, then cache.Get of the
\* lock record: a record seen means "lock already acquired by". The mutex
\* stays held until Lock returns.
LockCheck(j) ==
  /\ jpc[j] = "lock"
  /\ mutex[j[1]] = NoJob
  /\ IF TaskName \in Range(activeLocks[j[1]])
     THEN /\ LockReturns(j, "exists")
          /\ UNCHANGED <<failures, freeAtGet>>
     ELSE \E readOk \in Outcomes :
            /\ failures' = Spend(readOk)
            /\ IF RecordSeen(TaskName, readOk)
               THEN /\ LockReturns(j, "held")
                    /\ freeAtGet' = [freeAtGet EXCEPT
                                       ![j] = unlocked[TaskName] \notin {0, j[1]}]
               ELSE /\ mutex' = [mutex EXCEPT ![j[1]] = j[2]]
                    /\ jpc' = [jpc EXCEPT ![j] = "lock_set"]
                    /\ UNCHANGED <<lockErr, freeAtGet>>
  /\ UNCHANGED <<ctime, locks, activeLocks, attempts, ran,
                 ppc, snap, idx, nextLock, unlocked>>

\* a Lock that appends to activeLocks only once cache.Set has succeeded
LockSetThenAppend(j) ==
  /\ jpc[j] = "lock_set"
  /\ \E writeOk \in Outcomes :
       /\ failures' = Spend(writeOk)
       /\ activeLocks' = IF writeOk THEN [activeLocks EXCEPT ![j[1]] = Append(@, TaskName)]
                         ELSE activeLocks
       /\ locks' = IF writeOk THEN SetRecord(TaskName, j[1]) ELSE locks
       /\ unlocked' = IF writeOk THEN [unlocked EXCEPT ![TaskName] = 0] ELSE unlocked
       /\ LockReturns(j, IF writeOk THEN "nil" ELSE "write")
  /\ attempts' = [attempts EXCEPT ![j] = MaxRetry]
  /\ UNCHANGED <<ctime, ran, ppc, snap, idx, nextLock, freeAtGet>>

\* the lock is appended to activeLocks, then written with cache.Set, whose
\* error is what Lock returns
LockSet(j) ==
  /\ jpc[j] = "lock_set"
  /\ activeLocks' = [activeLocks EXCEPT ![j[1]] = Append(@, TaskName)]
  /\ \E writeOk \in Outcomes :
       /\ failures' = Spend(writeOk)
       /\ locks' = IF writeOk THEN SetRecord(TaskName, j[1]) ELSE locks
       /\ unlocked' = IF writeOk THEN [unlocked EXCEPT ![TaskName] = 0] ELSE unlocked
       /\ LockReturns(j, IF writeOk THEN "nil" ELSE "write")
  /\ attempts' = [attempts EXCEPT ![j] = MaxRetry]
  /\ UNCHANGED <<ctime, ran, ppc, snap, idx, nextLock, freeAtGet>>

(***************************************************************************)
(* runWithRetry and the Unlock that follows it in runOnCluster.            *)
(***************************************************************************)
\* one invocation of Task.Job; on an error attempts is decremented and the
\* job is invoked again while attempts > 0
RunJob(j) ==
  /\ jpc[j] = "job"
  /\ ran' = [ran EXCEPT ![j] = @ + 1]
  /\ \E jobOk \in BOOLEAN :
       IF ~jobOk /\ attempts[j] - 1 > 0
       THEN /\ attempts' = [attempts EXCEPT ![j] = @ - 1]
            /\ jpc' = jpc
       ELSE /\ attempts' = [attempts EXCEPT ![j] = 0]
            /\ jpc' = [jpc EXCEPT ![j] = "unlock"]
  /\ UNCHANGED <<ctime, locks, activeLocks, mutex, lockErr,
                 ppc, snap, idx, nextLock, failures, unlocked, freeAtGet>>

\* an Unlock that deletes the key and keeps the entry in activeLocks
UnlockKeepsEntry(j) ==
  /\ jpc[j] = "unlock"
  /\ mutex[j[1]] = NoJob
  /\ jpc' = [jpc EXCEPT ![j] = "done"]
  /\ \E delOk \in Outcomes :
       /\ failures' = Spend(delOk)
       /\ locks' = IF delOk THEN DelRecord(TaskName) ELSE locks
       /\ unlocked' = IF delOk THEN [unlocked EXCEPT ![TaskName] = j[1]] ELSE unlocked
  /\ UNCHANGED <<ctime, activeLocks, mutex, attempts, lockErr, ran,
                 ppc, snap, idx, nextLock, freeAtGet>>

\* Cluster.Unlock: under the mutex the entry leaves activeLocks and the key
\* is deleted; without an entry it returns "no such lock" and deletes nothing
Unlock(j) ==
  /\ jpc[j] = "unlock"
  /\ mutex[j[1]] = NoJob
  /\ jpc' = [jpc EXCEPT ![j] = "done"]
  /\ IF IndexOf(activeLocks[j[1]], TaskName) = 0
     THEN UNCHANGED <<activeLocks, locks, failures, unlocked>>
     ELSE /\ activeLocks' = [activeLocks EXCEPT
                               ![j[1]] = RemoveAt(@, IndexOf(@, TaskName))]
          /\ \E delOk \in Outcomes :
               /\ failures' = Spend(delOk)
               /\ locks' = IF delOk THEN DelRecord(TaskName) ELSE locks
               /\ unlocked' = IF delOk THEN [unlocked EXCEPT ![TaskName] = j[1]]
                              ELSE unlocked
  /\ UNCHANGED <<ctime, mutex, attempts, lockErr, ran,
                 ppc, snap, idx, nextLock, freeAtGet>>

(***************************************************************************)
(* Cluster.ping: the lockTimer case of the background goroutine. The loop  *)
(* ranges over activeLocks without taking the mutex.                       *)
(***************************************************************************)
\* <-lockTimer.C: the range expression is evaluated once
PingLockTimer(n) ==
  /\ ppc[n] = "select"
  /\ ctime >= nextLock[n]
  /\ nextLock' = [nextLock EXCEPT ![n] = @ + lockTTL]
  /\ snap' = [snap EXCEPT ![n] = activeLocks[n]]
  /\ idx' = [idx EXCEPT ![n] = 1]
  /\ ppc' = [ppc EXCEPT ![n] = IF activeLocks[n] = <<>> THEN "select" ELSE "renew"]
  /\ UNCHANGED <<ctime, locks, activeLocks, mutex, jpc, attempts, lockErr, ran,
                 failures, unlocked, freeAtGet>>

\* the element the loop reads at position i: the one it saw when the loop
\* began or, Lock and Unlock writing the same array meanwhile, the one
\* that is there now
RacyRead(n, i) ==
  {snap[n][i]} \cup (IF i <= Len(activeLocks[n]) THEN {activeLocks[n][i]} ELSE {})

\* one iteration: cache.Set(key, lock, lockTTL), its error dropped
PingRenew(n) ==
  /\ ppc[n] = "renew"
  /\ \E name \in RacyRead(n, idx[n]), writeOk \in Outcomes :
       /\ failures' = Spend(writeOk)
       /\ locks' = IF writeOk THEN SetRecord(name, n) ELSE locks
  /\ IF idx[n] < Len(snap[n])
     THEN /\ idx' = [idx EXCEPT ![n] = @ + 1]
          /\ UNCHANGED <<ppc, snap>>
     ELSE /\ idx' = [idx EXCEPT ![n] = 1]
          /\ snap' = [snap EXCEPT ![n] = <<>>]
          /\ ppc' = [ppc EXCEPT ![n] = "select"]
  /\ UNCHANGED <<ctime, activeLocks, mutex, jpc, attempts, lockErr, ran,
                 nextLock, unlocked, freeAtGet>>

(***************************************************************************)
(* Time: Redis drops a key once its TTL has elapsed.                       *)
(***************************************************************************)
Expire(name) ==
  /\ locks[name] # NoLock
  /\ locks[name].exp <= ctime
  /\ locks' = DelRecord(name)
  /\ UNCHANGED <<ctime, activeLocks, mutex, jpc, attempts, lockErr, ran,
                 ppc, snap, idx, nextLock, failures, unlocked, freeAtGet>>

\* a second passes; keys whose TTL has elapsed are gone before it does
TickCluster ==
  /\ ctime < MaxTime
  /\ \A name \in LockNames : locks[name] = NoLock \/ locks[name].exp > ctime
  /\ ctime' = ctime + 1
  /\ UNCHANGED <<locks, activeLocks, mutex, jpc, attempts, lockErr, ran,
                 ppc, snap, idx, nextLock, failures, unlocked, freeAtGet>>

(***************************************************************************)
(* The cluster specification: every node has just joined "scheduler"       *)
(* (Join started its tickers), no lock is held.                            *)
(***************************************************************************)
ClusterJoined ==
  /\ ctime = 0
  /\ locks = [name \in LockNames |-> NoLock]
  /\ activeLocks = [n \in Nodes |-> <<>>]
  /\ mutex = [n \in Nodes |-> NoJob]
  /\ jpc = [j \in Jobs |-> "idle"]
  /\ attempts = [j \in Jobs |-> 0]
  /\ lockErr = [j \in Jobs |-> "none"]
  /\ ran = [j \in Jobs |-> 0]
  /\ ppc = [n \in Nodes |-> "select"]
  /\ snap = [n \in Nodes |-> <<>>]
  /\ idx = [n \in Nodes |-> 1]
  /\ nextLock = [n \in Nodes |-> lockTTL]
  /\ failures = MaxFailures
  /\ unlocked = [name \in LockNames |-> 0]
  /\ freeAtGet = [j \in Jobs |-> FALSE]
  /\ alive = [n \in Nodes |-> "up"]

InitCluster == ClusterJoined /\ now = 0 /\ BucketUnused /\ CrawlerUnused /\ ServerUnused /\ LibUnused

NextCluster ==
  \/ \E j \in Jobs : Fire(j) /\ UNCHANGED notCluster
  \/ \E j \in Jobs : LockCheck(j) /\ UNCHANGED notCluster
  \/ \E j \in Jobs : LockSet(j) /\ UNCHANGED notCluster
  \/ \E j \in Jobs : RunJob(j) /\ UNCHANGED notCluster
  \/ \E j \in Jobs : Unlock(j) /\ UNCHANGED notCluster
  \/ \E n \in Nodes : PingLockTimer(n) /\ UNCHANGED notCluster
  \/ \E n \in Nodes : PingRenew(n) /\ UNCHANGED notCluster
  \/ \E name \in LockNames : Expire(name) /\ UNCHANGED notCluster
  \/ TickCluster /\ UNCHANGED notCluster

SpecCluster == InitCluster /\ [][NextCluster]_vars

(***************************************************************************)
(* Claims about the cluster lock and the scheduler.                        *)
(***************************************************************************)
\* node n holds the lock: a Lock call of one of its goroutines returned nil
\* and that goroutine has not called Unlock yet
Holds(n) == \E f \in Firings : jpc[<<n, f>>] \in {"job", "unlock"}

\* C1: cluster lock mutual exclusion - under every interleaving of Lock,
\* Unlock, renewal and TTL expiry, two nodes never hold the lock together.
C1_MutualExclusion == Cardinality({n \in Nodes : Holds(n)}) <= 1

\* C2: after a successful Unlock by one node, the next Lock by another node
\* succeeds when nobody acquired the lock in between, also when the former
\* holder's renewal runs concurrently with its Unlock: no such Lock call
\* ends with "lock already acquired by".
C2_LockAfterUnlockSucceeds == \A j \in Jobs : ~freeAtGet[j]

\* C3: for each cron firing the job callback is executed by at most one node.
C3_OneNodePerFiring ==
  \A f \in Firings : Cardinality({n \in Nodes : ran[<<n, f>>] > 0}) <= 1

\* runOnCluster of goroutine j returns after a Lock that returned nil: the
\* step is its Unlock
RunOnClusterReturns(j) == jpc[j] = "unlock" /\ jpc'[j] = "done"

LockFails(j) == jpc[j] \in {"lock", "lock_set"} /\ jpc'[j] = "done"

\* C33: whenever Lock(name) returns an error, the failed write of the record
\* included, the node's activeLocks is what it was before the call, so the
\* node does not renew a lock it did not acquire.
C33_FailedLockChangesNothing ==
  [][\A j \in Jobs : LockFails(j) => activeLocks'[j[1]] = activeLocks[j[1]]]_vars

\* the record of the lock is there and names another node than n
Foreign(name, n) == locks[name] # NoLock /\ locks[name].NodeId # n

\* the ping goroutine of node n runs one iteration of its renewal loop
RenewalStep(n) == ppc[n] = "renew" /\ (idx'[n] # idx[n] \/ ppc'[n] # ppc[n])

\* C34: Unlock and the periodic renewal delete or overwrite a lock record
\* only when its recorded holder is the calling node; the record another
\* node wrote after the caller's lock expired is left as it is.
C34_RecordOwnership ==
  [][/\ \A j \in Jobs :
          RunOnClusterReturns(j) /\ Foreign(TaskName, j[1]) => locks'[TaskName] = locks[TaskName]
     /\ \A n \in Nodes :
          RenewalStep(n) /\ Foreign(TaskName, n) => locks'[TaskName] = locks[TaskName]]_vars

\* the callback of firing j is running or about to be invoked again
InJob(j) == jpc[j] = "job"

\* firing j's Lock call returns while another firing of its node is in the job
LockReturnsDuringJob(j) ==
  /\ jpc[j] = "lock"
  /\ jpc'[j] # "lock"
  /\ \E k \in Jobs : k[1] = j[1] /\ k # j /\ InJob(k)

C40_TransientFailureRecovers ==
  (\A j \in Jobs : jpc[j] = "done") => \E j \in Jobs : lockErr[j] = "nil" /\ ran[j] > 0

\* C27: while a node holds a lock and stays alive, its renewal keeps the
\* record present with a TTL that has not elapsed, from Lock to Unlock - here
\* with a backend that has answered every call and no other node calling Lock.
C27_LockRenewal ==
  \A n \in Nodes :
    (/\ Holds(n)
     /\ failures = MaxFailures
     /\ \A j \in Jobs : j[1] # n => jpc[j] = "idle")
      => /\ locks[TaskName] # NoLock
         /\ locks[TaskName].NodeId = n

(***************************************************************************)
(* A holder that fails: the process crashes, or Leave closes the stop      *)
(* channel and the ping goroutine returns.  Time has no last instant here: *)
(* when a second passes every deadline comes one second nearer.            *)
(***************************************************************************)
\* node n is between a nil Lock and its Unlock
Holding(n) == \E f \in Firings : jpc[<<n, f>>] \in {"job", "unlock"}

\* the goroutines of node n run
Running(n) == alive[n] # "crashed"

\* the process of a holder dies; the other nodes stay up
Crash(n) ==
  /\ \A m \in Nodes : alive[m] = "up"
  /\ Holding(n)
  /\ alive' = [alive EXCEPT ![n] = "crashed"]
  /\ UNCHANGED clusterVars

\* Cluster.Leave by a holder: Publish, whose error ends the call, then HDel,
\* pubSub.Close and close(c.stop)
Leave(n) ==
  /\ \A m \in Nodes : alive[m] = "up"
  /\ Holding(n)
  /\ \E publishOk \in Outcomes :
       /\ failures' = Spend(publishOk)
       /\ alive' = IF publishOk THEN [alive EXCEPT ![n] = "left"] ELSE alive
  /\ UNCHANGED <<ctime, locks, activeLocks, mutex, jpc, attempts, lockErr, ran,
                 ppc, snap, idx, nextLock, unlocked, freeAtGet>>

\* <-c.stop in ping's select: the goroutine returns
PingStop(n) ==
  /\ alive[n] = "left"
  /\ ppc[n] = "select"
  /\ ppc' = [ppc EXCEPT ![n] = "stopped"]
  /\ UNCHANGED <<ctime, locks, activeLocks, mutex, jpc, attempts, lockErr, ran,
                 snap, idx, nextLock, failures, unlocked, freeAtGet, alive>>

\* the tickers of node n are served
Ticking(n) == Running(n) /\ ppc[n] # "stopped"

\* a second passes: the TTL of every key and the next tick of every served
\* lockTimer come one second nearer; expired keys are gone and due ticks are
\* taken before it does
TickFailover ==
  /\ \A name \in LockNames : locks[name] = NoLock \/ locks[name].exp > ctime
  /\ \A n \in Nodes : Ticking(n) => nextLock[n] > ctime
  /\ locks' = [name \in LockNames |->
                 IF locks[name] = NoLock THEN NoLock ELSE [locks[name] EXCEPT !.exp = @ - 1]]
  /\ nextLock' = [n \in Nodes |-> IF Ticking(n) THEN nextLock[n] - 1 ELSE nextLock[n]]
  /\ UNCHANGED <<ctime, activeLocks, mutex, jpc, attempts, lockErr, ran,
                 ppc, snap, idx, failures, unlocked, freeAtGet, alive>>

\* the cron entry of each node fires once
FirstFiring == {j \in Jobs : j[2] = 1}

JobStep(j) ==
  /\ Running(j[1])
  /\ (Fire(j) \/ LockCheck(j) \/ LockSet(j) \/ RunJob(j) \/ Unlock(j))
  /\ UNCHANGED alive

PingStep(n) ==
  /\ Running(n)
  /\ (PingLockTimer(n) \/ PingRenew(n))
  /\ UNCHANGED alive

ExpireStep == \E name \in LockNames : Expire(name) /\ UNCHANGED alive

InitFailover == ClusterJoined /\ now = 0 /\ BucketUnused /\ CrawlerUnused /\ ServerUnused /\ LibUnused

NextFailover ==
  \/ \E j \in FirstFiring : JobStep(j) /\ UNCHANGED notFailover
  \/ \E n \in Nodes : PingStep(n) /\ UNCHANGED notFailover
  \/ \E n \in Nodes : Crash(n) /\ UNCHANGED notFailover
  \/ \E n \in Nodes : Leave(n) /\ UNCHANGED notFailover
  \/ \E n \in Nodes : PingStop(n) /\ UNCHANGED notFailover
  \/ ExpireStep /\ UNCHANGED notFailover
  \/ TickFailover /\ UNCHANGED notFailover

\* every goroutine of a running process keeps being scheduled, Redis drops
\* expired keys, time passes
SpecFailover ==
  /\ InitFailover
  /\ [][NextFailover]_vars
  /\ \A j \in FirstFiring : WF_vars(JobStep(j) /\ UNCHANGED notFailover)
  /\ \A n \in Nodes : WF_vars(PingStep(n) /\ UNCHANGED notFailover)
  /\ \A n \in Nodes : WF_vars(PingStop(n) /\ UNCHANGED notFailover)
  /\ WF_vars(ExpireStep /\ UNCHANGED notFailover)
  /\ WF_vars(TickFailover /\ UNCHANGED notFailover)

\* node n held the lock and renews it no more
FailedHolder(n) == alive[n] = "crashed" \/ (alive[n] = "left" /\ ppc[n] = "stopped")

\* the record is gone and Lock(name) by a running node other than n returns
\* nil when the backend answers
Acquirable(n, name) ==
  /\ locks[name] = NoLock
  /\ \E m \in Nodes \ {n} : alive[m] = "up" /\ name \notin Range(activeLocks[m])

\* C14: once the holder of a lock has crashed, or has left without Unlock and
\* its ping goroutine has returned, the lock record eventually disappears and
\* Lock(name) by another node succeeds.
C14_LockExpiresAfterFailure ==
  \A n \in Nodes : FailedHolder(n) ~> Acquirable(n, TaskName)

(***************************************************************************)
(* LeakyBucket. Instants and durations are whole ticks; a rate is a whole  *)
(* number of tokens per second. One call reads the clock at one instant.   *)
(***************************************************************************)
\* math.Ceil(a / b) for a > 0, b > 0
Ceil(a, b) == (a + b - 1) \div b

\* time.Duration(float64(time.Second) * (float64(amount) / b.rate)): the
\* conversion to Duration drops the fraction of a tick
Duration(amount, rate) == (Second * amount) \div rate

\* LeakyBucket.count at instant t: nsRemaining / nsPerDrip, rounded up, with
\* nsPerDrip = float64(time.Second) / rate
count(b, t) ==
  IF ~(t < b.p) THEN 0
  ELSE Ceil((b.p - t) * b.rate, Second)

\* LeakyBucket.Add(amount) at instant t: the bucket afterwards and the
\* amount admitted
LeakyBucketAdd(b, amount, t) ==
  IF count(b, t) >= b.capacity THEN [b |-> b, n |-> 0]
  ELSE LET p0 == IF ~(t < b.p) THEN t ELSE b.p
           remaining == b.capacity - count(b, t)
           n == IF amount > remaining THEN remaining ELSE amount
       IN  [b |-> [b EXCEPT !.p = p0 + Duration(n, b.rate)], n |-> n]

\* NewLeakyBucket(rate, capacity)
NewLeakyBucket(rate, capacity, t) == [rate |-> rate, capacity |-> capacity, p |-> t]

\* b.Add(amount) by the only user of the bucket
AddCall(amount) ==
  /\ Len(calls) < MaxCalls
  /\ bucket' = LeakyBucketAdd(bucket, amount, now).b
  /\ calls' = Append(calls, [at |-> now, amount |-> amount,
                             n |-> LeakyBucketAdd(bucket, amount, now).n,
                             p0 |-> bucket.p, p1 |-> bucket'.p])
  /\ now' = now

TickBucket ==
  /\ now < MaxNow
  /\ now' = now + 1
  /\ UNCHANGED bucketVars

InitBucket ==
  /\ ClusterJoined
  /\ now = 0
  /\ \E rate \in Rates, capacity \in Capacities :
       bucket = NewLeakyBucket(rate, capacity, now)
  /\ calls = <<>>
  /\ CrawlerUnused
  /\ ServerUnused
  /\ LibUnused

NextBucket ==
  \/ \E amount \in Amounts : AddCall(amount) /\ UNCHANGED notBucket
  \/ TickBucket /\ UNCHANGED notBucket

SpecBucket == InitBucket /\ [][NextBucket]_vars

(***************************************************************************)
(* Claims about the leaky bucket                                           *)
(***************************************************************************)
\* the first k calls are Add(1) and lie within one drain interval (1/rate
\* seconds) of the first of them
UnitBurst(k) ==
  /\ Len(calls) >= k
  /\ \A i \in 1..k : calls[i].amount = 1
  /\ (calls[k].at - calls[1].at) * bucket.rate < Second

\* C4: bucket conservation. Starting from an empty bucket, when capacity+1
\* successive Add(1) calls are made within one drain interval, the first
\* capacity of them return 1 and the next returns 0; and an Add(1) made at
\* least 1/rate seconds after a rejected Add(1) returns 1.
C4_BucketConservation ==
  /\ UnitBurst(bucket.capacity + 1) =>
       /\ \A i \in 1..bucket.capacity : calls[i].n = 1
       /\ calls[bucket.capacity + 1].n = 0
  /\ \A i \in 1..(Len(calls) - 1) :
       ( /\ calls[i].amount = 1 /\ calls[i].n = 0
         /\ calls[i+1].amount = 1
         /\ (calls[i+1].at - calls[i].at) * bucket.rate >= Second )
       => calls[i+1].n = 1

\* the number of whole or started drips between instant t and p, as the
\* algorithm is specified: ceil((p - t) / (1s / rate)) if p > t, else 0
SpecCount(c) ==
  IF c.p0 > c.at
  THEN CHOOSE k \in 0..((c.p0 - c.at) * bucket.rate) :
         /\ k * Second >= (c.p0 - c.at) * bucket.rate
         /\ (k - 1) * Second < (c.p0 - c.at) * bucket.rate
  ELSE 0

Max(a, b) == IF a > b THEN a ELSE b
Min(a, b) == IF a < b THEN a ELSE b

\* C5: every Add(amount) follows the specified algorithm: with
\* count = ceil((p-now)/(1s/r)) if p > now else 0, a call with count >= C
\* returns 0 and leaves p unchanged; any other call returns
\* min(amount, C - count) and sets p to max(p, now) + allowed * (1s/r); so
\* the result lies in [0, amount] and never exceeds C - count.
C5_AddFollowsAlgorithm ==
  \A i \in 1..Len(calls) :
    LET c == calls[i]
        cnt == SpecCount(c)
    IN  /\ c.n >= 0 /\ c.n <= c.amount
        /\ IF cnt >= bucket.capacity
           THEN c.n = 0 /\ c.p1 = c.p0
           ELSE /\ c.n = Min(c.amount, bucket.capacity - cnt)
                /\ c.p1 * bucket.rate = Max(c.p0, c.at) * bucket.rate + c.n * Second

(***************************************************************************)
(* Crawler detection and the ban list (package security).                  *)
(***************************************************************************)
URLs == {"/index.php", "/svc/1.0.0/ping"}
UserAgents == {"sqlmap/1.7", "curl/8.0"}
BanDurations == 0..MaxBan

\* time.Minute * 5
DefaultBan == 5 * 60 * Second

\* the strings of URLs matched by one of webExploits (".*\.php", ...)
webExploits == {"/index.php"}

\* the strings of UserAgents matched by one of userAgents (".*sqlmap.*", ...)
userAgents == {"sqlmap/1.7"}

getMatch(str, list) == str \in list

\* the ban window if a zero banDuration were taken as it is
BanWindowLiteral(d) == d

\* the ban window IsCrawler works with: a zero banDuration means five minutes
BanWindow(d) == IF d = 0 THEN DefaultBan ELSE d

\* getBannedIP(ip): status and banTime
getBannedIP(ip) == [status |-> bannedIPs[ip] # NoBan, banTime |-> bannedIPs[ip]]

\* SetBannedIP(ip) at instant t: the map afterwards
SetBannedIP(ip, t) == [bannedIPs EXCEPT ![ip] = t]

\* IsCrawler(url, ip, useragent, banDuration) at instant t: the result, the
\* map afterwards, and whether a match was the reason
IsCrawler(url, ip, useragent, d, t) ==
  IF getBannedIP(ip).status /\ getBannedIP(ip).banTime + BanWindow(d) > t
  THEN [res |-> TRUE, banned |-> bannedIPs, match |-> FALSE]
  ELSE IF getMatch(useragent, userAgents)
  THEN [res |-> TRUE, banned |-> SetBannedIP(ip, t), match |-> TRUE]
  ELSE IF getMatch(url, webExploits)
  THEN [res |-> TRUE, banned |-> SetBannedIP(ip, t), match |-> TRUE]
  ELSE [res |-> FALSE, banned |-> bannedIPs, match |-> FALSE]

\* a caller invokes IsCrawler with the configured banDuration
CallIsCrawler(url, ip, useragent) ==
  LET r == IsCrawler(url, ip, useragent, banDuration, now)
  IN  /\ bannedIPs' = r.banned
      /\ detected' = IF r.match THEN [detected EXCEPT ![ip] = now] ELSE detected
      /\ lastCall' = [ip |-> ip, url |-> url, ua |-> useragent, at |-> now, res |-> r.res,
                      det0 |-> detected[ip], ban0 |-> bannedIPs[ip], ban1 |-> r.banned[ip]]
      /\ UNCHANGED <<now, banDuration>>

\* time passes: one tick, or five minutes at once
TickCrawler ==
  \E d \in {1, DefaultBan} :
    /\ IF d = 1 THEN now % DefaultBan <= MaxBan ELSE now < DefaultBan
    /\ now' = now + d
    /\ UNCHANGED crawlerVars

InitCrawler ==
  /\ ClusterJoined
  /\ ServerUnused
  /\ LibUnused
  /\ BucketUnused
  /\ now = 0
  /\ banDuration \in BanDurations
  /\ bannedIPs = [ip \in IPs |-> NoBan]
  /\ detected = [ip \in IPs |-> NoBan]
  /\ lastCall = NoCall

NextCrawler ==
  \/ \E url \in URLs, ip \in IPs, useragent \in UserAgents :
       CallIsCrawler(url, ip, useragent) /\ UNCHANGED notCrawler
  \/ TickCrawler /\ UNCHANGED notCrawler

SpecCrawler == InitCrawler /\ [][NextCrawler]_vars

(***************************************************************************)
(* Claims about the ban list                                               *)
(***************************************************************************)
\* the latest IsCrawler call was for an IP with an earlier detection
AfterDetection == lastCall # NoCall /\ lastCall.det0 # NoBan

CleanCall == lastCall.url \notin webExploits /\ lastCall.ua \notin userAgents

\* the ban lifecycle of the latest call, for a ban that lasts w ticks: t is
\* the instant of the IP's latest detection by a user-agent or URL match
BanLifecycle(w) ==
  AfterDetection =>
    LET t == lastCall.det0
    IN  /\ lastCall.at < t + w => lastCall.res /\ lastCall.ban1 = lastCall.ban0
        /\ lastCall.at > t + w /\ CleanCall => ~lastCall.res

\* C8 as stated: after IsCrawler returned true for an IP because of a
\* user-agent or URL match at time t, every call for that IP before
\* t+banDuration returns true whatever its URL and user agent and leaves the
\* ban where it was, and a call after t+banDuration with a non-matching URL
\* and user agent returns false.
C8_BanLifecycleAsStated == BanLifecycle(banDuration)

\* C8 with a banDuration of 0 read as five minutes: the same lifecycle, the
\* ban lasting banDuration, or 5 minutes when banDuration is 0.
C8_BanLifecycle == BanLifecycle(IF banDuration = 0 THEN 5 * 60 * Second ELSE banDuration)

\* a ban with banDuration 0 has lifted after five minutes
C8_Witness ==
  /\ AfterDetection
  /\ banDuration = 0
  /\ lastCall.at > lastCall.det0 + 5 * 60 * Second
  /\ CleanCall
  /\ ~lastCall.res

(***************************************************************************)
(* Collector: the buckets map and the priority queue (container/heap over  *)
(* priorityQueue). A heap state is the queue h (bucket ids, position i of  *)
(* the source at h[i+1]), the bucket objects o, and whether an index ran   *)
(* out of range (panic).                                                   *)
(***************************************************************************)
HeapState(h, o) == [h |-> h, o |-> o, panic |-> FALSE]

InRange(st, i) == i >= 0 /\ i < Len(st.h)

\* priorityQueue.Less(i, j)
Less(st, i, j) == st.o[st.h[i+1]].p < st.o[st.h[j+1]].p

\* priorityQueue.Swap(i, j)
Swap(st, i, j) ==
  [st EXCEPT !.h = [@ EXCEPT ![i+1] = st.h[j+1], ![j+1] = st.h[i+1]],
             !.o = [@ EXCEPT ![st.h[j+1]].index = i, ![st.h[i+1]].index = j]]

\* container/heap up(h, j)
RECURSIVE up(_, _)
up(st, j) ==
  LET i == IF j = 0 THEN 0 ELSE (j - 1) \div 2
  IN  IF i = j THEN st
      ELSE IF ~InRange(st, j) THEN [st EXCEPT !.panic = TRUE]
      ELSE IF ~Less(st, j, i) THEN st
      ELSE up(Swap(st, i, j), i)

\* container/heap down(h, i0, n): the state afterwards and the position the
\* element ended at
RECURSIVE down(_, _, _)
down(st, i, n) ==
  LET j1 == 2 * i + 1
      j == IF j1 + 1 < n /\ Less(st, j1 + 1, j1) THEN j1 + 1 ELSE j1
  IN  IF j1 >= n THEN [st |-> st, i |-> i]
      ELSE IF ~Less(st, j, i) THEN [st |-> st, i |-> i]
      ELSE down(Swap(st, i, j), j, n)

\* heap.Fix(h, i)
Fix(st, i) ==
  IF down(st, i, Len(st.h)).i > i THEN down(st, i, Len(st.h)).st ELSE up(st, i)

\* priorityQueue.Pop
Pop(st) == [st EXCEPT !.h = SubSeq(@, 1, Len(@) - 1)]

\* heap.Remove(h, i)
Remove(st, i) ==
  LET n == Len(st.h) - 1
  IN  IF n = i THEN Pop(st)
      ELSE IF ~InRange(st, i) \/ n < 0 THEN [st EXCEPT !.panic = TRUE]
      ELSE LET sw == Swap(st, i, n)
               fixed == IF down(sw, i, n).i > i THEN down(sw, i, n).st ELSE up(sw, i)
           IN  Pop(fixed)

\* NewCollector(rate, capacity) at instant t; its ticker fires every second
NewCollector(rate, capacity, t) ==
  [on |-> TRUE, rate |-> rate, capacity |-> capacity,
   buckets |-> [key \in IPs |-> 0], heap |-> <<>>, next |-> t + Second]

\* Collector.Add, the part under the collector's lock: the bucket of the key,
\* created and pushed if the map has none. Yields the collector, the objects
\* and the bucket the caller goes on with.
CollectorLookup(c, o, key, t) ==
  IF c.buckets[key] # 0 THEN [c |-> c, o |-> o, b |-> c.buckets[key]]
  ELSE [c |-> [c EXCEPT !.heap = Append(@, Len(o) + 1), !.buckets[key] = Len(o) + 1],
        o |-> Append(o, [key |-> key, capacity |-> c.capacity, rate |-> c.rate,
                         p |-> t, index |-> Len(c.heap)]),
        b |-> Len(o) + 1]

\* Collector.Add, the part after the lock is released: b.Add(amount), then
\* heap.Fix(&c.heap, b.index) if something was admitted
CollectorCharge(c, o, b, amount, t) ==
  LET added == LeakyBucketAdd(o[b], amount, t)
      o1 == [o EXCEPT ![b] = added.b]
      st == IF added.n > 0 THEN Fix(HeapState(c.heap, o1), o1[b].index) ELSE HeapState(c.heap, o1)
  IN  [c |-> [c EXCEPT !.heap = st.h], o |-> st.o, n |-> added.n, panic |-> st.panic]

\* Collector.removeEmptyBuckets at instant t
RECURSIVE removeEmptyBuckets(_, _, _)
removeEmptyBuckets(c, o, t) ==
  IF c.heap = <<>> THEN [c |-> c, o |-> o, panic |-> FALSE]
  ELSE LET b == c.heap[1]
       IN  IF t < o[b].p THEN [c |-> c, o |-> o, panic |-> FALSE]
           ELSE LET st == Remove(HeapState(c.heap, o), o[b].index)
                    c1 == [c EXCEPT !.buckets[o[b].key] = 0, !.heap = st.h]
                IN  IF st.panic THEN [c |-> c1, o |-> st.o, panic |-> TRUE]
                    ELSE removeEmptyBuckets(c1, st.o, t)

(***************************************************************************)
(* The server: Start, the request handler with its middleware chain, the   *)
(* collector's ticker, Stop.                                               *)
(***************************************************************************)
healthCheckPath == "/healthcheck"
honeyPotPath == "/honeypot"

\* a registered route, and a path that is neither a route nor a static file
RoutePath == "/svc/1.0.0/ping"
routes == {RoutePath}
Paths == {honeyPotPath, healthCheckPath, RoutePath, "/nope"}

\* the remote addresses the requests come from
Clients == {"10.0.0.1"}

\* the user agent the clients send
ClientUA == "curl/8.0"

\* what Start passes to UseMiddleware
BuiltIn == <<"accessLog", "recover", "monitoring", "trace", "preSecurity", "cache",
             "postSecurity", "compress">>

\* time.Second * 10
StopTimeout == 10 * Second

Reverse(s) == [i \in 1..Len(s) |-> s[Len(s) + 1 - i]]

\* for _, m := range middlewares { h = m(h) }: each middleware wraps what was
\* built before it, so the call enters the one registered last
Chain(mws) == Reverse(mws)

InFlight(r) == req[r].pc \in {"pre", "charge", "handler", "hung"}

\* the phases run when the middleware at position pos returns and the call
\* unwinds through the ones around it
Unwind(chain, pos) == [i \in 1..(pos - 1) |-> <<chain[pos - i], "post">>]

\* Server.Start
ServerStart ==
  /\ spc.at = "new"
  /\ middlewares' = middlewares \o BuiltIn \o
                      (IF cfg.bruteForce THEN <<"bruteForce">> ELSE <<>>)
  /\ collector' = IF cfg.bruteForce THEN NewCollector(cfg.rate, cfg.capacity, now) ELSE collector
  /\ spc' = [spc EXCEPT !.at = "serving"]
  /\ UNCHANGED <<now, banDuration, bannedIPs, cfg, active, req, lb, trapped, started>>

\* UseMiddleware(m) by the application, while no request is being served
\* (the slice is not guarded by any lock)
UseMiddleware(m) ==
  /\ m \notin Range(middlewares)
  /\ req[1].pc = "none"
  /\ middlewares' = Append(middlewares, m)
  /\ UNCHANGED <<now, banDuration, bannedIPs, cfg, spc, active, req, collector, lb, trapped, started>>

\* the middleware at position pos calls next
Enter(q, m) ==
  [q EXCEPT !.log = Append(@, <<m, "pre">>),
            !.pos = @ + 1,
            !.pc = IF q.pos = Len(middlewares) THEN "handler" ELSE "pre"]

\* the middlewares whose pre-handler phase reads or writes state shared
\* between requests; the phases of the others are taken in the same step
Shared(m) == m = "bruteForce" \/ (m = "preSecurity" /\ cfg.urlScanner)

RECURSIVE Pass(_)
Pass(q) ==
  IF q.pc = "pre" /\ ~Shared(Chain(middlewares)[q.pos])
  THEN Pass(Enter(q, Chain(middlewares)[q.pos]))
  ELSE q

Advance(q, m) == Pass(Enter(q, m))

\* a request whose response is complete
Answered(r, ip, path, status) ==
  [pc |-> "done", ip |-> ip, path |-> path, pos |-> 0, status |-> status, log |-> <<>>, b |-> 0,
   alone |-> \A q \in Requests : ~InFlight(q),
   inBan |-> trapped[ip] # NoBan /\ now < trapped[ip] + banDuration,
   quick |-> r = 1 \/ now < started + Second,
   fromMap |-> FALSE]

\* Server.handler up to the call of the chain: the paths answered directly,
\* and the requests that enter the chain
Accept(r, ip, path) ==
  /\ spc.at = "serving"
  /\ req[r].pc = "none"
  /\ IF r = 1 THEN TRUE ELSE req[r-1].pc # "none"
  /\ Cardinality({q \in Requests : InFlight(q)}) < MaxInFlight
  /\ IF path = honeyPotPath
     THEN /\ bannedIPs' = SetBannedIP(ip, now)
          /\ trapped' = [trapped EXCEPT ![ip] = now]
          /\ req' = [req EXCEPT ![r] = Answered(r, ip, path, 204)]
          /\ active' = active
     ELSE IF path = healthCheckPath
     THEN /\ req' = [req EXCEPT ![r] = Answered(r, ip, path, 200)]
          /\ UNCHANGED <<bannedIPs, trapped, active>>
     ELSE IF path \notin routes
     THEN /\ req' = [req EXCEPT ![r] = Answered(r, ip, path, 404)]
          /\ UNCHANGED <<bannedIPs, trapped, active>>
     ELSE /\ req' = [req EXCEPT ![r] = Pass([Answered(r, ip, path, 0) EXCEPT
                       !.pc = IF middlewares = <<>> THEN "handler" ELSE "pre",
                       !.pos = 1])]
          /\ active' = active + 1
          /\ UNCHANGED <<bannedIPs, trapped>>
  /\ started' = IF r = 1 THEN now ELSE started
  /\ UNCHANGED <<now, banDuration, cfg, middlewares, spc, collector, lb>>

\* the middleware at position pos writes the status and returns an error:
\* the call unwinds and Server.handler returns
Reject(q, m, status) ==
  [q EXCEPT !.log = Append(@, <<m, "pre">>) \o Unwind(Chain(middlewares), q.pos),
            !.status = status,
            !.pc = "done"]

\* the pre-handler phase of the middleware the call has reached
PrePhase(r) ==
  /\ req[r].pc = "pre"
  /\ LET q == req[r]
         m == Chain(middlewares)[q.pos]
     IN  IF m = "bruteForce"
         THEN LET found == CollectorLookup(collector, lb, q.ip, now)
              IN  /\ collector' = found.c
                  /\ lb' = found.o
                  /\ req' = [req EXCEPT ![r] = [q EXCEPT !.pc = "charge", !.b = found.b]]
                  /\ UNCHANGED <<bannedIPs, active>>
         ELSE LET seen == IsCrawler(q.path, q.ip, ClientUA, banDuration, now)
              IN  /\ bannedIPs' = seen.banned
                  /\ req' = [req EXCEPT ![r] = IF seen.res THEN Reject(q, m, 403) ELSE Advance(q, m)]
                  /\ active' = IF seen.res THEN active - 1 ELSE active
                  /\ UNCHANGED <<collector, lb>>
  /\ UNCHANGED <<now, banDuration, cfg, middlewares, spc, trapped, started>>

\* bruteForceMiddleware after the collector's lock is released: the charge
\* of one token, then 429 or the call of next
Charge(r) ==
  /\ req[r].pc = "charge"
  /\ LET q == [req[r] EXCEPT !.fromMap = collector.buckets[req[r].ip] = req[r].b,
                             !.quick = @ /\ now < started + Second]
         paid == CollectorCharge(collector, lb, q.b, 1, now)
     IN  /\ collector' = paid.c
         /\ lb' = paid.o
         /\ req' = [req EXCEPT ![r] =
                      IF paid.panic THEN [q EXCEPT !.pc = "panic"]
                      ELSE IF paid.n = 0 THEN Reject(q, "bruteForce", 429)
                      ELSE Advance(q, "bruteForce")]
         /\ active' = IF paid.panic \/ paid.n = 0 THEN active - 1 ELSE active
  /\ UNCHANGED <<now, banDuration, bannedIPs, cfg, middlewares, spc, trapped, started>>

\* the route handler: it answers 200 and the call unwinds, or it never returns
RouteHandler(r) ==
  /\ req[r].pc = "handler"
  /\ \E returns \in BOOLEAN :
       IF returns
       THEN /\ req' = [req EXCEPT ![r] =
                         [@ EXCEPT !.log = Append(@, <<"handler", "run">>)
                                             \o Unwind(Chain(middlewares), Len(middlewares) + 1),
                                   !.status = 200,
                                   !.pc = "done"]]
            /\ active' = active - 1
       ELSE /\ req' = [req EXCEPT ![r].pc = "hung"]
            /\ active' = active
  /\ UNCHANGED <<now, banDuration, bannedIPs, cfg, middlewares, spc, collector, lb, trapped, started>>

\* the collector's ticker fires: removeEmptyBuckets. A panic there ends the
\* process.
CollectorTick ==
  /\ collector.on
  /\ spc.at # "crashed"
  /\ now >= collector.next
  /\ LET swept == removeEmptyBuckets(collector, lb, now)
     IN  /\ collector' = [swept.c EXCEPT !.next = @ + Second]
         /\ lb' = swept.o
         /\ spc' = IF swept.panic THEN [spc EXCEPT !.at = "crashed"] ELSE spc
  /\ UNCHANGED <<now, banDuration, bannedIPs, cfg, middlewares, active, req, trapped, started>>

\* Server.Stop is called: httpServer.Shutdown closes the listener
StopCall ==
  /\ spc.at = "serving"
  /\ spc' = [spc EXCEPT !.at = "shutdown"]
  /\ UNCHANGED <<now, banDuration, bannedIPs, cfg, middlewares, active, req, collector, lb, trapped, started>>

\* httpServer.Shutdown(context.Background()) returns: no connection is left
\* with a handler running; Stop starts the wait on the counter
ShutdownReturns ==
  /\ spc.at = "shutdown"
  /\ \A r \in Requests : ~InFlight(r)
  /\ spc' = [at |-> "waiting", since |-> now]
  /\ UNCHANGED <<now, banDuration, bannedIPs, cfg, middlewares, active, req, collector, lb, trapped, started>>

\* the select in Stop: the counter reached zero, or ten seconds passed
StopSelect ==
  /\ spc.at = "waiting"
  /\ active = 0 \/ now >= spc.since + StopTimeout
  /\ spc' = [spc EXCEPT !.at = "stopped"]
  /\ UNCHANGED <<now, banDuration, bannedIPs, cfg, middlewares, active, req, collector, lb, trapped, started>>

\* time passes once the server is started; a due pass of the collector's
\* ticker runs before the next tick
TickServer ==
  /\ now < MaxNow
  /\ spc.at # "new"
  /\ ~(collector.on /\ spc.at # "crashed" /\ now >= collector.next)
  /\ now' = now + 1
  /\ UNCHANGED <<banDuration, bannedIPs, serverVars>>

\* the server after New, with its configuration
InitServer ==
  /\ ClusterJoined
  /\ BucketUnused
  /\ LibUnused
  /\ now = 0
  /\ banDuration \in {0, MaxBan}
  /\ bannedIPs = [ip \in IPs |-> NoBan]
  /\ detected = [ip \in IPs |-> NoBan]
  /\ lastCall = NoCall
  /\ cfg \in [urlScanner : BOOLEAN, bruteForce : BOOLEAN, rate : {1}, capacity : {2}]
  /\ middlewares = <<>>
  /\ spc = [at |-> "new", since |-> 0]
  /\ active = 0
  /\ req = [r \in Requests |-> NoRequest]
  /\ collector = NoCollector
  /\ lb = <<>>
  /\ trapped = [ip \in IPs |-> NoBan]
  /\ started = 0

NextServer ==
  \/ ServerStart /\ UNCHANGED notServer
  \/ UseMiddleware("user") /\ UNCHANGED notServer
  \/ \E r \in Requests, ip \in Clients, path \in Paths : Accept(r, ip, path) /\ UNCHANGED notServer
  \/ \E r \in Requests : PrePhase(r) /\ UNCHANGED notServer
  \/ \E r \in Requests : Charge(r) /\ UNCHANGED notServer
  \/ \E r \in Requests : RouteHandler(r) /\ UNCHANGED notServer
  \/ CollectorTick /\ UNCHANGED notServer
  \/ StopCall /\ UNCHANGED notServer
  \/ ShutdownReturns /\ UNCHANGED notServer
  \/ StopSelect /\ UNCHANGED notServer
  \/ TickServer /\ UNCHANGED notServer

SpecServer == InitServer /\ [][NextServer]_vars

\* the scheduler runs every goroutine that can take a step: Stop's own
\* steps, and the steps of the requests being served
SpecServerFair ==
  /\ SpecServer
  /\ WF_vars(ShutdownReturns /\ UNCHANGED notServer)
  /\ WF_vars(StopSelect /\ UNCHANGED notServer)
  /\ \A r \in Requests : WF_vars(PrePhase(r) /\ UNCHANGED notServer)
  /\ \A r \in Requests : WF_vars(Charge(r) /\ UNCHANGED notServer)
  /\ \A r \in Requests : WF_vars(RouteHandler(r) /\ UNCHANGED notServer)

(***************************************************************************)
(* Claims about the server                                                 *)
(***************************************************************************)
\* C6: Stop always terminates: once called it eventually returns, even if a
\* request handler never returns; and when no handler is left hanging it has
\* returned only with the active-request counter at zero.
C6_StopTerminates ==
  /\ (spc.at = "shutdown") ~> (spc.at = "stopped")
  /\ [](spc.at = "stopped" /\ (\A r \in Requests : req[r].pc # "hung") => active = 0)

\* the phases of a request served through the chain, as the ordering is
\* stated: pre-handler phases in registration order, the route handler, the
\* post-handler phases in the reverse order
StatedOrder(mws) ==
  [i \in 1..Len(mws) |-> <<mws[i], "pre">>]
    \o << <<"handler", "run">> >>
    \o [i \in 1..Len(mws) |-> <<mws[Len(mws) + 1 - i], "post">>]

\* C7: for every request that went through the chain to the route handler
\* and back, the pre-handler phases ran in registration order, then the
\* route handler, then the post-handler phases in the reverse order.
C7_MiddlewareOrder ==
  \A r \in Requests :
    req[r].pc = "done" /\ req[r].path \in routes /\ req[r].status = 200
      => req[r].log = StatedOrder(middlewares)

\* C9: a GET /honeypot is answered 204 and bans the caller, and every
\* request from that IP arriving within banDuration of it, whatever its
\* path, is answered 403.
C9_HoneypotBan ==
  \A r \in Requests :
    req[r].pc = "done" =>
      /\ req[r].path = honeyPotPath /\ ~req[r].inBan
           => req[r].status = 204 /\ bannedIPs[req[r].ip] # NoBan
      /\ req[r].inBan => req[r].status = 403

\* the three requests are the scenario S5: all to a route, one after the
\* other, from one client, arrived and charged within one second of the
\* arrival of the first, all answered
ScenarioS5 ==
  /\ cfg.bruteForce /\ cfg.rate = 1 /\ cfg.capacity = 2
  /\ MaxRequests >= 3
  /\ \A r \in 1..3 :
       /\ req[r].pc = "done"
       /\ req[r].path \in routes
       /\ req[r].ip = req[1].ip
       /\ req[r].alone /\ req[r].quick

\* C10: with brute-force protection on, rate 1 and capacity 2, three
\* successive requests from one client IP within one second are answered
\* 200, 200, 429; each is charged to the bucket the collector keeps for the
\* remote address, and the 429 is answered without calling the next handler.
C10_BruteForceS5 ==
  ScenarioS5 =>
    /\ req[1].status = 200 /\ req[2].status = 200 /\ req[3].status = 429
    /\ \A r \in 1..3 : req[r].fromMap
    /\ <<"handler", "run">> \notin Range(req[3].log)

\* C29: under every interleaving of Add calls and removal passes, a bucket
\* that holds admitted tokens not yet drained (p > now) is the bucket the
\* collector keeps for its key, so the key's next Add is charged against it.
C29_UndrainedBucketKept ==
  collector.on =>
    \A b \in 1..Len(lb) : lb[b].p > now => collector.buckets[lb[b].key] = b

(***************************************************************************)
(* Route registry: RegisterRoute and analyze. Names are sequences of       *)
(* characters; a method has a name, the kinds of its parameters after the  *)
(* receiver, and the kinds of its results.                                 *)
(***************************************************************************)
UpperCase == <<"A", "C", "D", "E", "G", "I", "R", "U">>
LowerCase == <<"a", "c", "d", "e", "g", "i", "r", "u">>

\* strings.ToLower
ToLower(str) ==
  [i \in 1..Len(str) |->
     IF str[i] \in Range(UpperCase) THEN LowerCase[IndexOf(UpperCase, str[i])] ELSE str[i]]

\* strings.HasPrefix
HasPrefix(str, prefix) ==
  Len(str) >= Len(prefix) /\ SubSeq(str, 1, Len(prefix)) = prefix

\* strings.TrimPrefix
TrimPrefix(str, prefix) ==
  IF HasPrefix(str, prefix) THEN SubSeq(str, Len(prefix) + 1, Len(str)) ELSE str

PGet == <<"G", "e", "t">>
PCreate == <<"C", "r", "e", "a", "t", "e">>
PAdd == <<"A", "d", "d">>
PUpdate == <<"U", "p", "d", "a", "t", "e">>
PEdit == <<"E", "d", "i", "t">>
PDelete == <<"D", "e", "l", "e", "t", "e">>
PRemove == <<"R", "e", "m", "o", "v", "e">>
PDo == <<"D", "o">>

MethodGet == <<"G", "E", "T">>
MethodPost == <<"P", "O", "S", "T">>
MethodPut == <<"P", "U", "T">>
MethodDelete == <<"D", "E", "L", "E", "T", "E">>

User == <<"U", "s", "e", "r">>

\* the method names a module may have
MethodNames == {PGet \o User, PDo \o User, PAdd \o User, PCreate \o User}

\* parameter lists after the receiver, and result lists
ParamLists == {<<>>, <<"ctx">>, <<"ctx", "int">>, <<"ctx", "struct">>}
ResultLists == {<<"int", "error">>, <<"error">>}

Methods == [name : MethodNames, ins : ParamLists, outs : ResultLists]

\* reflection.IsSimpleType
IsSimpleType(kind) == kind \in {"int", "string", "bool"}

\* Method.NumIn: the receiver and the parameters
NumIn(method) == 1 + Len(method.ins)

\* the checks of analyze that a method passes to become a handler
Eligible(method) ==
  /\ ~(NumIn(method) < 2)
  /\ ~(Len(method.outs) < 2)
  /\ method.outs[Len(method.outs)] = "error"
  /\ method.outs[Len(method.outs) - 1] = "int"

\* the switch of analyze on the prefix of the method name: the HTTP method
\* and the prefixes handed to do
PrefixCase(name) ==
  IF HasPrefix(name, PGet) THEN [http |-> MethodGet, prefixes |-> <<PGet>>]
  ELSE IF HasPrefix(name, PCreate) \/ HasPrefix(name, PAdd)
  THEN [http |-> MethodPost, prefixes |-> <<PAdd, PCreate>>]
  ELSE IF HasPrefix(name, PUpdate) \/ HasPrefix(name, PEdit)
  THEN [http |-> MethodPut, prefixes |-> <<PEdit, PUpdate>>]
  ELSE IF HasPrefix(name, PDelete) \/ HasPrefix(name, PRemove)
  THEN [http |-> MethodDelete, prefixes |-> <<PDelete, PRemove>>]
  ELSE [http |-> MethodGet, prefixes |-> <<PDo>>]

\* the name with each prefix trimmed in turn
RECURSIVE TrimAll(_, _)
TrimAll(name, prefixes) ==
  IF prefixes = <<>> THEN name
  ELSE TrimAll(TrimPrefix(name, ToLower(Head(prefixes))), Tail(prefixes))

\* handler.do: HTTPMethod and Name of the handler of a method
do(method, httpMethod, prefixes) ==
  [HTTPMethod |->
     IF /\ NumIn(method) > 2
        /\ httpMethod \in {MethodGet, MethodDelete}
        /\ \E i \in 2..Len(method.ins) : ~IsSimpleType(method.ins[i])
     THEN MethodPost ELSE httpMethod,
   Name |-> TrimAll(ToLower(method.name), prefixes),
   FuncRef |-> method.name]

HandlerOf(method) == do(method, PrefixCase(method.name).http, PrefixCase(method.name).prefixes)

\* one iteration of analyze's loop that forgets the handler already stored
\* under the key
analyzeStepOverwrite(acc, method) ==
  IF acc.err \/ ~Eligible(method) THEN acc
  ELSE LET h == HandlerOf(method)
           key == h.HTTPMethod \o h.Name
       IN  [acc EXCEPT !.res = (key :> h) @@ acc.res]

\* one iteration of analyze's loop: res and whether analyze has returned the
\* duplicate error
analyzeStep(acc, method) ==
  IF acc.err \/ ~Eligible(method) THEN acc
  ELSE LET h == HandlerOf(method)
           key == h.HTTPMethod \o h.Name
       IN  IF key \in DOMAIN acc.res THEN [acc EXCEPT !.err = TRUE]
           ELSE [acc EXCEPT !.res = (key :> h) @@ acc.res]

\* analyze(module) over the methods in the order they are enumerated
RECURSIVE analyzeFrom(_, _)
analyzeFrom(acc, methods) ==
  IF methods = <<>> THEN acc
  ELSE analyzeFrom(analyzeStep(acc, Head(methods)), Tail(methods))

analyze(methods) == analyzeFrom([res |-> <<>>, err |-> FALSE], methods)

\* RegisterRoute(module)
RegisterRoute ==
  /\ regErr = "none"
  /\ IF module.service
     THEN /\ regErr' = IF analyze(module.methods).err THEN "duplicate" ELSE "nil"
          /\ registry' = IF ~analyze(module.methods).err /\ DOMAIN analyze(module.methods).res # {}
                         THEN analyze(module.methods).res ELSE registry
     ELSE regErr' = "nil" /\ registry' = registry
  /\ module' = module

\* the module's type declares one more method, enumerated after the others
DeclareMethod(method) ==
  /\ regErr = "none"
  /\ Len(module.methods) < MaxMethods
  /\ \A i \in 1..Len(module.methods) : module.methods[i].name # method.name
  /\ module' = [module EXCEPT !.methods = Append(@, method)]
  /\ UNCHANGED <<registry, regErr>>

\* a module, Service or not, before its methods are declared
\* the cluster, the rate limiter, the ban list and the server when the library
\* functions are exercised on their own
CoreUnused ==
  /\ ClusterJoined
  /\ now = 0
  /\ BucketUnused
  /\ CrawlerUnused
  /\ ServerUnused

InitRoute ==
  /\ CoreUnused
  /\ PermUnused
  /\ RestartUnused
  /\ RaceUnused
  /\ LogUnused
  /\ GCUnused
  /\ LockingUnused
  /\ StopUnused
  /\ DepartUnused
  /\ IPUnused
  /\ SessionUnused
  /\ ChainUnused
  /\ TokenUnused
  /\ HandlerUnused
  /\ RetryUnused
  /\ module \in [service : BOOLEAN, methods : {<<>>}]
  /\ registry = <<>>
  /\ regErr = "none"

NextRoute ==
  \/ \E method \in Methods : DeclareMethod(method) /\ UNCHANGED notRoute
  \/ RegisterRoute /\ UNCHANGED notRoute

SpecRoute == InitRoute /\ [][NextRoute]_vars

(***************************************************************************)
(* Claims about the route registry                                         *)
(***************************************************************************)
\* two methods of the module that become handlers with the same HTTP method
\* and the same trimmed lowercase name
Collide(l) ==
  \E i, j \in 1..Len(l) :
    /\ i < j
    /\ Eligible(l[i]) /\ Eligible(l[j])
    /\ HandlerOf(l[i]).HTTPMethod = HandlerOf(l[j]).HTTPMethod
    /\ HandlerOf(l[i]).Name = HandlerOf(l[j]).Name

\* C11: RegisterRoute of a service returns an error exactly when two of its
\* handler methods map to the same (HTTP method, trimmed lowercase name)
\* pair, e.g. GetUser and DoUser or AddUser and CreateUser; being a property
\* of the set of methods, the outcome does not depend on the order in which
\* they are enumerated, and without an error every handler is registered.
C11_RouteUniqueness ==
  regErr # "none" /\ module.service =>
    /\ regErr = "duplicate" <=> Collide(module.methods)
    /\ regErr = "nil" =>
         \A i \in 1..Len(module.methods) :
           Eligible(module.methods[i]) =>
             \E key \in DOMAIN registry : registry[key].FuncRef = module.methods[i].name

\* AddUser enumerated after CreateUser, with a handler in between, is refused
C11_Witness ==
  /\ regErr = "duplicate"
  /\ module.service
  /\ Len(module.methods) = 3
  /\ module.methods[1].name = PCreate \o User
  /\ module.methods[3].name = PAdd \o User
  /\ Eligible(module.methods[2])
  /\ ~Collide(SubSeq(module.methods, 1, 2))

(***************************************************************************)
(* Session tokens: 16 random bytes followed by their CRC-32 (IEEE), in     *)
(* hexadecimal.  A string is a sequence of characters; a uint32 is the     *)
(* pair of its high and low 16 bits.                                       *)
(***************************************************************************)
\* buffers rand.Read may return: 0..MaxSeed
MaxSeed == 3
BufLen == 16
TokenLen == 40
DataLen == 32

hextable == <<"0", "1", "2", "3", "4", "5", "6", "7", "8", "9", "a", "b", "c", "d", "e", "f">>
UpperHex == <<"A", "B", "C", "D", "E", "F">>
\* a character that is no hexadecimal digit
NonHex == "g"
Chars == Range(hextable) \cup Range(UpperHex) \cup {NonHex}

\* fromHexChar: the value of a hexadecimal digit of either case, -1 for any other character
fromHexChar(c) ==
  IF \E i \in 1..16 : hextable[i] = c THEN (CHOOSE i \in 1..16 : hextable[i] = c) - 1
  ELSE IF \E i \in 1..6 : UpperHex[i] = c THEN (CHOOSE i \in 1..6 : UpperHex[i] = c) + 9
  ELSE -1

IsHex(str) == \A i \in 1..Len(str) : fromHexChar(str[i]) >= 0

\* hex.EncodeToString: two lowercase digits per byte, high nibble first
EncodeToString(bytes) ==
  [k \in 1..2 * Len(bytes) |->
     LET b == bytes[(k + 1) \div 2]
     IN  hextable[(IF k % 2 = 1 THEN b \div 16 ELSE b % 16) + 1]]

\* hex.DecodeString: the bytes, or an error for an odd length or a character that is no digit
DecodeString(str) ==
  IF Len(str) % 2 = 1 \/ ~IsHex(str) THEN [err |-> TRUE]
  ELSE [err |-> FALSE,
        val |-> [k \in 1..Len(str) \div 2 |-> 16 * fromHexChar(str[2 * k - 1]) + fromHexChar(str[2 * k])]]

\* the number a string of hexadecimal digits denotes
RECURSIVE HexValue(_)
HexValue(str) ==
  IF str = <<>> THEN 0 ELSE 16 * HexValue(SubSeq(str, 1, Len(str) - 1)) + fromHexChar(str[Len(str)])

\* strconv.ParseUint(str, 16, 32) of at most eight characters: the number, or an error
ParseUint(str) ==
  IF str = <<>> \/ ~IsHex(str) THEN [err |-> TRUE]
  ELSE IF Len(str) <= 4 THEN [err |-> FALSE, val |-> <<0, HexValue(str)>>]
  ELSE [err |-> FALSE,
        val |-> <<HexValue(SubSeq(str, 1, Len(str) - 4)), HexValue(SubSeq(str, Len(str) - 3, Len(str)))>>]

\* bit i of n
Bit(n, i) == (n \div 2^i) % 2

\* bitwise exclusive or of two 16-bit numbers
Xor(a, b) ==
  LET x(i) == ((Bit(a, i) + Bit(b, i)) % 2) * 2^i
  IN  x(0) + x(1) + x(2) + x(3) + x(4) + x(5) + x(6) + x(7)
      + x(8) + x(9) + x(10) + x(11) + x(12) + x(13) + x(14) + x(15)

\* crc32.IEEE, the reversed polynomial 0xedb88320
IEEE == <<60856, 33568>>

\* one bit of the CRC register: shift right, and xor the polynomial in when a one drops out
crcShift(crc) ==
  LET hi == crc[1] \div 2
      lo == (crc[2] \div 2) + 32768 * (crc[1] % 2)
  IN  IF crc[2] % 2 = 1 THEN <<Xor(hi, IEEE[1]), Xor(lo, IEEE[2])>> ELSE <<hi, lo>>

\* a uint32: both halves within 16 bits
IsUint32(crc) == crc[1] \in 0..65535 /\ crc[2] \in 0..65535

\* n bits shifted through the register
RECURSIVE crcShifts(_, _)
crcShifts(crc, n) == IF n = 0 \/ ~IsUint32(crc) THEN crc ELSE crcShifts(crcShift(crc), n - 1)

\* crc32.IEEETable: entry i is i shifted through the register eight times
IEEETable == [i \in 0..255 |-> crcShifts(<<0, i>>, 8)]

\* crc32.update over the data, one byte after the other:
\* crc = table[byte(crc) ^ v] ^ (crc >> 8)
RECURSIVE crcUpdate(_, _)
crcUpdate(crc, data) ==
  IF data = <<>> \/ ~IsUint32(crc) THEN crc
  ELSE LET entry == IEEETable[Xor(crc[2] % 256, Head(data))]
       IN  crcUpdate(<<Xor(entry[1], crc[1] \div 256),
                       Xor(entry[2], (crc[2] \div 256) + 256 * (crc[1] % 256))>>,
                     Tail(data))

\* crc32.ChecksumIEEE: the register starts and ends inverted
ChecksumIEEE(data) ==
  LET crc == crcUpdate(<<65535, 65535>>, data)
  IN  <<65535 - crc[1], 65535 - crc[2]>>

\* byte(checksum >> shift & 0xFF)
ByteOf(checksum, shift) ==
  (checksum[IF shift >= 16 THEN 1 ELSE 2] \div 2^(shift % 16)) % 256

\* newToken, for the buffer rand.Read filled
newToken(buf) ==
  LET checksum == ChecksumIEEE(buf)
  IN  EncodeToString(buf \o <<ByteOf(checksum, 24), ByteOf(checksum, 16), ByteOf(checksum, 8), ByteOf(checksum, 0)>>)

\* Valid without the comparison of the checksum
ValidFormat(t) ==
  IF Len(t) # TokenLen THEN FALSE
  ELSE LET checksum == ParseUint(SubSeq(t, DataLen + 1, Len(t)))
           data == DecodeString(SubSeq(t, 1, DataLen))
       IN  ~checksum.err /\ ~data.err

\* Token.Valid
Valid(t) ==
  IF Len(t) # TokenLen THEN FALSE
  ELSE LET checksum == ParseUint(SubSeq(t, DataLen + 1, Len(t)))
           data == DecodeString(SubSeq(t, 1, DataLen))
       IN  IF checksum.err THEN FALSE
           ELSE IF data.err THEN FALSE
           ELSE checksum.val = ChecksumIEEE(data.val)

\* the buffers rand.Read fills in the model: all zero, and three of mixed bytes
Buffers == {[i \in 1..BufLen |-> (seed * (29 * i + 101)) % 256] : seed \in 0..MaxSeed}

\* newToken() and Valid() on the result
NewToken(buf) ==
  /\ genuine = <<>>
  /\ genuine' = newToken(buf)
  /\ token' = genuine'
  /\ valid' = Valid(token')

\* Valid() on the token with the character at pos replaced by c
ReplaceChar(pos, c) ==
  /\ genuine # <<>> /\ token = genuine
  /\ c # token[pos]
  /\ token' = [token EXCEPT ![pos] = c]
  /\ valid' = Valid(token')
  /\ UNCHANGED genuine

\* Valid() on the token cut to n characters
Truncate(n) ==
  /\ genuine # <<>> /\ token = genuine
  /\ token' = SubSeq(token, 1, n)
  /\ valid' = Valid(token')
  /\ UNCHANGED genuine

\* Valid() on the token with one more character
Extend(c) ==
  /\ genuine # <<>> /\ token = genuine
  /\ token' = Append(token, c)
  /\ valid' = Valid(token')
  /\ UNCHANGED genuine

InitToken ==
  /\ CoreUnused
  /\ PermUnused
  /\ RestartUnused
  /\ RaceUnused
  /\ LogUnused
  /\ GCUnused
  /\ LockingUnused
  /\ StopUnused
  /\ DepartUnused
  /\ IPUnused
  /\ SessionUnused
  /\ ChainUnused
  /\ RouteUnused
  /\ HandlerUnused
  /\ RetryUnused
  /\ TokenUnused

NextToken ==
  \/ \E buf \in Buffers : NewToken(buf) /\ UNCHANGED notToken
  \/ \E pos \in 1..TokenLen, c \in Chars : ReplaceChar(pos, c) /\ UNCHANGED notToken
  \/ \E n \in 0..TokenLen - 1 : Truncate(n) /\ UNCHANGED notToken
  \/ \E c \in Chars : Extend(c) /\ UNCHANGED notToken

SpecToken == InitToken /\ [][NextToken]_vars

\* the positions at which two strings of one length differ
Diff(s, t) == {i \in 1..Len(s) : s[i] # t[i]}

\* C12: a token of newToken is 40 lowercase hexadecimal characters and is
\* Valid; the token with one digit replaced by a hexadecimal digit of another
\* value is not Valid; no string of another length, and no string with a
\* character that is not a hexadecimal digit, is Valid.
C12_TokenRoundTrip ==
  genuine # <<>> =>
    /\ Len(genuine) = TokenLen
    /\ \A i \in 1..Len(genuine) : genuine[i] \in Range(hextable)
    /\ token = genuine => valid
    /\ (/\ Len(token) = TokenLen
        /\ IsHex(token)
        /\ \E i \in 1..TokenLen :
             Diff(token, genuine) = {i} /\ fromHexChar(token[i]) # fromHexChar(genuine[i])) => ~valid
    /\ Len(token) # TokenLen \/ ~IsHex(token) => ~valid

\* a digit of the random part replaced by another digit, and Valid returned false
C12_Witness ==
  /\ genuine # <<>>
  /\ Len(token) = TokenLen
  /\ IsHex(token)
  /\ \E i \in 1..DataLen : Diff(token, genuine) = {i} /\ fromHexChar(token[i]) # fromHexChar(genuine[i])
  /\ ~valid

(***************************************************************************)
(* The Response and handler.Handler: the call of the route method and the  *)
(* negotiation of the encoder.  A header value is a sequence of tokens: a  *)
(* MIME type, a space or a semicolon.                                      *)
(***************************************************************************)
\* tokens of the Accept header
MaxAccept == 3

StatusOK == 200
StatusBadRequest == 400
StatusNotFound == 404

AnyType == "*/*"
JSON == "application/json"
Tokens == {";", " ", AnyType, JSON, "text/xml", "text/yaml"}

\* a WriteHeader that writes whether or not the response is committed
WriteHeaderAgain(r, code) ==
  LET c == IF code = 0 THEN StatusOK ELSE code
  IN  [r EXCEPT !.Status = c, !.sent = Append(@, [code |-> c, contentType |-> r.contentType]),
                !.Committed = TRUE]

\* Response.WriteHeader
WriteHeader(r, code) ==
  IF r.Committed THEN r
  ELSE LET c == IF code = 0 THEN StatusOK ELSE code
       IN  [r EXCEPT !.Status = c, !.sent = Append(@, [code |-> c, contentType |-> r.contentType]),
                     !.Committed = TRUE]

\* Response.Write
Write(r, b) ==
  LET r1 == IF ~r.Committed THEN WriteHeader(r, StatusOK) ELSE r
  IN  [r1 EXCEPT !.body = @ \o b, !.Size = @ + Len(b)]

\* Context.BadRequest
BadRequest(r, msg) == Write(WriteHeader(r, StatusBadRequest), <<msg>>)

\* strings.Contains(str, ";")
Contains(str, tok) == \E i \in 1..Len(str) : str[i] = tok

\* strings.Split(str, ";")
RECURSIVE Split(_, _)
Split(str, sep) ==
  IF ~Contains(str, sep) THEN <<str>>
  ELSE LET k == CHOOSE i \in 1..Len(str) : str[i] = sep /\ \A j \in 1..i - 1 : str[j] # sep
       IN  <<SubSeq(str, 1, k - 1)>> \o Split(SubSeq(str, k + 1, Len(str)), sep)

\* strings.TrimSpace
RECURSIVE TrimSpace(_)
TrimSpace(str) ==
  IF str = <<>> THEN str
  ELSE IF Head(str) = " " THEN TrimSpace(Tail(str))
  ELSE IF str[Len(str)] = " " THEN TrimSpace(SubSeq(str, 1, Len(str) - 1))
  ELSE str

\* outputEncoder[mime]: the registered function, "nil" when there is none
Lookup(encs, mime) == IF mime \in DOMAIN encs THEN encs[mime] ELSE "nil"

\* the MIME type an entry spells, "" when it is not one token
EntryType(entry) == IF Len(entry) = 1 THEN entry[1] ELSE ""

\* the loop over acceptedEncodings: outEncoder and outContentType after it
RECURSIVE Negotiate(_, _, _)
Negotiate(encs, entries, outContentType) ==
  IF entries = <<>> THEN [outEncoder |-> "nil", outContentType |-> outContentType]
  ELSE LET trimmed == TrimSpace(Head(entries))
           encoding == IF Contains(trimmed, ";") THEN TrimSpace(Split(trimmed, ";")[1]) ELSE trimmed
       IN  IF encoding = <<AnyType>>
           THEN [outEncoder |-> Lookup(encs, JSON),
                 outContentType |-> IF outContentType = "" THEN JSON ELSE outContentType]
           ELSE IF EntryType(encoding) \in DOMAIN encs
           THEN [outEncoder |-> encs[EntryType(encoding)],
                 outContentType |-> IF outContentType = "" THEN EntryType(encoding) ELSE outContentType]
           ELSE Negotiate(encs, Tail(entries), outContentType)

\* a choice that looks at the registered types only
ChooseFirstRegistered(encs, acceptEncoding, outContentType) ==
  LET registered == SelectSeq(Split(acceptEncoding, ";"), LAMBDA e : EntryType(TrimSpace(e)) \in DOMAIN encs)
  IN  IF registered = <<>> THEN [outEncoder |-> Lookup(encs, JSON), outContentType |-> JSON]
      ELSE [outEncoder |-> encs[EntryType(TrimSpace(Head(registered)))],
            outContentType |-> EntryType(TrimSpace(Head(registered)))]

\* the choice of handler.Handler: the loop, then the fallback
Choose(encs, acceptEncoding, outContentType) ==
  LET acceptedEncodings == IF Contains(acceptEncoding, ";") THEN Split(acceptEncoding, ";") ELSE <<acceptEncoding>>
      found == Negotiate(encs, acceptedEncodings, outContentType)
  IN  IF found.outEncoder = "nil"
      THEN [outEncoder |-> Lookup(encs, JSON),
            outContentType |-> IF found.outContentType = "" THEN JSON ELSE found.outContentType]
      ELSE found

\* what the route method does: the Content-Type it sets ("" for none), what
\* it writes itself, the status and error it returns, whether it returns a
\* result before them
Calls ==
  [contentType : {"", "text/plain"}, writes : {"nothing", "header", "body", "panic"},
   status : {0, StatusNotFound}, err : BOOLEAN, result : BOOLEAN]

\* what precedes the call: the arguments from the URL and the body
Inputs == {"ok", "bad argument", "invalid input format", "failed to parse input"}

\* handler.Handler from the call of the route method on: the response, the
\* returned error and the encoder invoked
AfterCall(r, encs, acceptEncoding, call, encodes) ==
  LET r1 == [r EXCEPT !.contentType = IF call.contentType # "" THEN call.contentType ELSE @]
      r2 == CASE call.writes = "header" -> WriteHeader(r1, StatusOK)
              [] call.writes = "body" -> Write(r1, <<"written by the method">>)
              [] OTHER -> r1
      choice == Choose(encs, acceptEncoding, r2.contentType)
      r3 == IF r2.contentType = "" THEN [r2 EXCEPT !.contentType = choice.outContentType] ELSE r2
      r4 == IF ~r3.Committed THEN WriteHeader(r3, call.status) ELSE r3
  IN  IF call.writes = "panic"
      THEN [resp |-> r1, ret |-> "bad request", outEncoder |-> "none"]
      ELSE IF call.err
      THEN [resp |-> Write(r4, <<"error">>), ret |-> "nil", outEncoder |-> choice.outEncoder]
      ELSE IF call.result
      THEN IF encodes
           THEN [resp |-> Write(r4, <<"result">>), ret |-> "nil", outEncoder |-> choice.outEncoder]
           ELSE [resp |-> BadRequest(r4, "invalid output format"), ret |-> "nil", outEncoder |-> choice.outEncoder]
      ELSE [resp |-> r4, ret |-> "nil", outEncoder |-> "none"]

\* RegisterEncoder
RegisterEncoder(mime, fn) ==
  /\ hret = "none"
  /\ accept = <<>>
  /\ outputEncoder' = (mime :> fn) @@ outputEncoder
  /\ outputEncoder' # outputEncoder
  /\ UNCHANGED <<accept, resp, hret, outEncoder, called>>

\* the client spells its Accept header
AcceptToken(tok) ==
  /\ hret = "none"
  /\ Len(accept) < MaxAccept
  /\ accept' = Append(accept, tok)
  /\ UNCHANGED <<outputEncoder, resp, hret, outEncoder, called>>

\* handler.Handler
Handler(input, call, encodes) ==
  /\ hret = "none"
  /\ IF input # "ok"
     THEN /\ resp' = BadRequest(resp, input)
          /\ hret' = "nil"
          /\ outEncoder' = "none"
          /\ called' = NoCallYet
     ELSE LET after == AfterCall(resp, outputEncoder, accept, call, encodes)
          IN  /\ resp' = after.resp
              /\ hret' = after.ret
              /\ outEncoder' = after.outEncoder
              /\ called' = call
  /\ UNCHANGED <<outputEncoder, accept>>

InitHandler ==
  /\ CoreUnused
  /\ PermUnused
  /\ RestartUnused
  /\ RaceUnused
  /\ LogUnused
  /\ GCUnused
  /\ LockingUnused
  /\ StopUnused
  /\ DepartUnused
  /\ IPUnused
  /\ SessionUnused
  /\ ChainUnused
  /\ RouteUnused
  /\ TokenUnused
  /\ RetryUnused
  /\ HandlerUnused

NextHandler ==
  \/ \E mime \in {"text/yaml", "text/xml"} : RegisterEncoder(mime, "yamlEncoder") /\ UNCHANGED notHandler
  \/ \E tok \in Tokens : AcceptToken(tok) /\ UNCHANGED notHandler
  \/ \E input \in Inputs, call \in Calls, encodes \in BOOLEAN : Handler(input, call, encodes) /\ UNCHANGED notHandler

SpecHandler == InitHandler /\ [][NextHandler]_vars

\* the entries of the Accept header, trimmed
Entries == LET parts == Split(accept, ";") IN [i \in 1..Len(parts) |-> TrimSpace(parts[i])]

IsRegistered(entry) == Len(entry) = 1 /\ entry[1] \in DOMAIN outputEncoder

\* the first entry that is */* or a registered type, 0 if there is none
FirstMatch ==
  LET matching == {i \in 1..Len(Entries) : Entries[i] = <<AnyType>> \/ IsRegistered(Entries[i])}
  IN  IF matching = {} THEN 0 ELSE CHOOSE i \in matching : \A j \in matching : i <= j

\* the type named by the Accept header: that of the first matching entry,
\* application/json when it is */* or there is none
Negotiated == IF FirstMatch = 0 \/ Entries[FirstMatch] = <<AnyType>> THEN JSON ELSE Entries[FirstMatch][1]

\* the statement read with */* overriding: application/json when any entry
\* is */* or none is registered, else the first registered entry
NegotiatedAsStated ==
  LET registered == {i \in 1..Len(Entries) : IsRegistered(Entries[i])}
  IN  IF registered = {} \/ \E i \in 1..Len(Entries) : Entries[i] = <<AnyType>> THEN JSON
      ELSE Entries[CHOOSE i \in registered : \A j \in registered : i <= j][1]

\* handler.Handler invoked an encoder
Encoded == hret # "none" /\ outEncoder # "none"

\* C13 as stated: the result is encoded with the encoder of the first Accept
\* entry that is a registered MIME type, and with the application/json
\* encoder if an entry is */* or no entry matches.
C13_NegotiationAsStated ==
  Encoded => outEncoder = outputEncoder[NegotiatedAsStated]

\* C13: the entries of the Accept header are tried in order and the first
\* that is */* or a registered MIME type decides: the result is encoded with
\* the application/json encoder when that entry is */* or there is no such
\* entry, else with the encoder registered for the entry; the Content-Type of
\* the response is the one the route method set, else the type so chosen.
C13_Negotiation ==
  Encoded =>
    /\ outEncoder = outputEncoder[Negotiated]
    /\ resp.contentType = IF called.contentType # "" THEN called.contentType ELSE Negotiated
    /\ called.writes = "nothing" => resp.sent[1].contentType = resp.contentType

\* Accept: "text/xml;*/*" with the result encoded as XML
C13_Witness ==
  /\ Encoded
  /\ accept = <<"text/xml", ";", AnyType>>
  /\ called.contentType = ""
  /\ called.result /\ ~called.err
  /\ outEncoder = "xmlOutputEncoder"
  /\ resp.contentType = "text/xml"

\* the status codes a later caller may pass to WriteHeader
Codes == {0, StatusOK, StatusBadRequest, StatusNotFound}

\* the status is decided once: what reached the http.ResponseWriter is at
\* most one status, the response is committed exactly when one did, and it
\* is Response.Status; on a response not yet committed WriteHeader and Write
\* commit, on a committed one WriteHeader changes nothing
DecidedOnce ==
  /\ Len(resp.sent) <= 1
  /\ resp.Committed <=> Len(resp.sent) = 1
  /\ resp.Committed => resp.Status # 0 /\ resp.Status = resp.sent[1].code
  /\ ~resp.Committed =>
       /\ \A code \in Codes : WriteHeader(resp, code).Committed /\ Len(WriteHeader(resp, code).sent) = 1
       /\ Write(resp, <<"b">>).Committed /\ Write(resp, <<"b">>).Status = StatusOK
  /\ resp.Committed =>
       \A code \in Codes : WriteHeader(resp, code).Status = resp.Status
                              /\ WriteHeader(resp, code).Committed
                              /\ WriteHeader(resp, code).sent = resp.sent

\* the route method was called and returned with the response not committed
ReturnedUncommitted == hret # "none" /\ called.writes = "nothing"

\* C20 as stated: the status is decided once, Committed implies Status # 0,
\* and the status the route method returned is the response status whenever
\* the response was not committed when the method returned.
C20_StatusDecidedOnceAsStated ==
  /\ DecidedOnce
  /\ ReturnedUncommitted => resp.Status = called.status

\* C20: the status is decided once, Committed implies Status # 0, and when
\* the response was not committed when the route method returned, the
\* response status is the status the method returned, 200 if it returned 0.
C20_StatusDecidedOnce ==
  /\ DecidedOnce
  /\ ReturnedUncommitted =>
       resp.Status = IF called.status = 0 THEN StatusOK ELSE called.status

\* the method returned 404 and a result that cannot be encoded: BadRequest
\* called WriteHeader(400) on the committed response and the status stayed
C20_Witness ==
  /\ ReturnedUncommitted
  /\ called.status = StatusNotFound
  /\ called.result /\ ~called.err
  /\ resp.body = <<"invalid output format">>
  /\ resp.Status = StatusNotFound
  /\ resp.Committed

(***************************************************************************)
(* One run of a scheduler task on its own: runJob, runOnCluster and        *)
(* runWithRetry, with what Join, Lock and the job callback return as       *)
(* inputs.                                                                 *)
(***************************************************************************)
\* Task.MaxRetry of the task: MinRetry..MaxRetry + 1
MinRetry == -1
RetryRange == MinRetry..MaxRetry + 1

\* what the job callback returns: nil or an error
JobErrors == {"e1", "e2", "e3"}
JobResults == {"nil"} \cup JobErrors

\* a retry whatever attempts is left
retryAlways(left) == TRUE

\* attempts--; attempts > 0
retry(left) == left - 1 > 0

\* runJob up to the call of runWithRetry: without a Cluster it joins
\* "scheduler"; when that fails the job runs without a lock, else
\* runOnCluster takes the lock, and a lock that is not acquired ends the run
\* with nil
StartRun(joinOk, lockOk) ==
  /\ run.pc = "idle"
  /\ IF ~task.Cluster /\ ~joinOk
     THEN /\ run' = [run EXCEPT !.pc = "job", !.attempts = task.MaxRetry]
          /\ UNCHANGED task
     ELSE /\ task' = [task EXCEPT !.Cluster = TRUE]
          /\ run' = IF lockOk THEN [run EXCEPT !.pc = "locked job", !.attempts = task.MaxRetry]
                    ELSE [run EXCEPT !.pc = "done", !.result = "nil"]

\* runWithRetry: one invocation of task.Job and what follows it; after the
\* last one runOnCluster unlocks and the run returns
Invoke(res) ==
  /\ run.pc \in {"job", "locked job"}
  /\ IF res # "nil" /\ retry(run.attempts)
     THEN run' = [run EXCEPT !.outcomes = Append(@, res), !.attempts = @ - 1]
     ELSE run' = [run EXCEPT !.outcomes = Append(@, res), !.pc = "done", !.result = res,
                             !.attempts = IF res = "nil" THEN @ ELSE @ - 1]
  /\ UNCHANGED task

InitRetry ==
  /\ CoreUnused
  /\ PermUnused
  /\ RestartUnused
  /\ RaceUnused
  /\ LogUnused
  /\ GCUnused
  /\ LockingUnused
  /\ StopUnused
  /\ DepartUnused
  /\ IPUnused
  /\ SessionUnused
  /\ ChainUnused
  /\ RouteUnused
  /\ TokenUnused
  /\ HandlerUnused
  /\ task \in [MaxRetry : RetryRange, Cluster : BOOLEAN]
  /\ run = NoRun

NextRetry ==
  \/ \E joinOk \in BOOLEAN, lockOk \in BOOLEAN : StartRun(joinOk, lockOk) /\ UNCHANGED notRetry
  \/ \E res \in JobResults : Invoke(res) /\ UNCHANGED notRetry

SpecRetry == InitRetry /\ [][NextRetry]_vars

\* the invocations runWithRetry may make: MaxRetry, and one when MaxRetry <= 0
Allowed == IF task.MaxRetry >= 1 THEN task.MaxRetry ELSE 1

\* C15: the callback is invoked until it returns nil or the attempts are
\* exhausted: at most MaxRetry times when MaxRetry >= 1, exactly once when
\* MaxRetry <= 0, never again after a nil, and the result of the run is what
\* the last invocation returned: nil exactly when it succeeded, else its error.
C15_SchedulerRetry ==
  LET n == Len(run.outcomes)
  IN  /\ n <= Allowed
      /\ \A i \in 1..n - 1 : run.outcomes[i] # "nil"
      /\ run.pc = "done" /\ n > 0 =>
           /\ run.result = run.outcomes[n]
           /\ run.outcomes[n] = "nil" \/ n = Allowed
           /\ task.MaxRetry <= 0 => n = 1

\* MaxRetry = 2, two failed invocations, the second error is the result
C15_Witness ==
  /\ task.MaxRetry = 2
  /\ run.pc = "done"
  /\ run.outcomes = <<"e1", "e2">>
  /\ run.result = "e2"

(***************************************************************************)
(* The composed chain, followed call by call for one request: what each    *)
(* middleware does with the context before it calls next, what it does     *)
(* with what next returned, and what Server.handler does with the error    *)
(* the outermost one returns.  A call returns the context, the error       *)
(* ("" for nil), and whether it ended in a panic instead of returning.     *)
(***************************************************************************)
StatusForbidden == 403
StatusNotAcceptable == 406
StatusTooManyRequests == 429
StatusInternalServerError == 500

\* the remote address of the requests, and the CSRF token of the stored session
ClientAddr == "10.0.0.1"
SessionCSRF == "csrf-of-the-session"

WriteVerbs == {"POST", "PUT", "PATCH"}

\* the requests: method, whether a trace id is sent, where the token of a
\* stored session is sent ("none": nowhere), the X-Csrf-Token header, and
\* whether the path is a route or a static file
ChainRequests ==
  [Method : {"GET"} \cup WriteVerbs, traceID : BOOLEAN, sessionID : {"none", "cookie", "header"},
   csrf : {"", SessionCSRF, "another"}, static : BOOLEAN]

\* the functions of a chain, the route handler included
Callees == Range(BuiltIn) \cup {"bruteForce", "auth", "handler"}

\* what the request meets: the function that panics when it is called
\* ("none": no function does), whether IsCrawler matches the request,
\* whether the collector has a token left, whether the route method
\* returns an error; a panic is met by a request that nothing else stops
Environments ==
  [panicAt : {"none"}, crawler : BOOLEAN, tokens : {0, 1}, failed : BOOLEAN]
    \cup [panicAt : Callees, crawler : {FALSE}, tokens : {1}, failed : {FALSE}]

SecurityConfigs ==
  [EnableTracing : {TRUE}, TraceRequired : BOOLEAN,
   Whitelist : {{}, {"10.0.0.9"}}, Blacklist : {{}, {ClientAddr}},
   URLScanner : BOOLEAN, CSRFTokenRequired : BOOLEAN, BruteForce : BOOLEAN]

NoSession == [nil |-> TRUE]
NoRejection == [by |-> "none"]

\* newContext, and what is noted of the call: the access-log lines emitted,
\* how many times the route handler was invoked, whether a function of the
\* chain panicked, and the middleware that returned without calling next
NewContext ==
  [Session |-> NoSession, Response |-> NewResponse, lines |-> <<>>, handled |-> 0,
   raised |-> FALSE, rejected |-> NoRejection, trace |-> FALSE]

Returns(c, err) == [c |-> c, err |-> err, panic |-> FALSE]
Panics(c) == [c |-> [c EXCEPT !.raised = TRUE], err |-> "", panic |-> TRUE]

\* a middleware writes a status and returns an error without calling next
Rejects(c, m, status, err) ==
  Returns([c EXCEPT !.Response = WriteHeader(@, status),
                    !.rejected = [by |-> m, status |-> status, text |-> err, returns |-> err]], err)

\* the verdict of a middleware that lets the request through
NoVerdict == [status |-> 0, err |-> ""]

\* traceMiddleware up to its call of next
traceMiddleware(conf, rq) ==
  IF conf.EnableTracing /\ conf.TraceRequired /\ ~rq.traceID
  THEN [status |-> StatusBadRequest, err |-> "trace token required"]
  ELSE NoVerdict

\* traceMiddleware when it lets the request through: with tracing enabled
\* the trace id is set on the request and on the response
traceHeader(conf, c) == [c EXCEPT !.trace = conf.EnableTracing]

\* preSecurityMiddleware up to its call of next
preSecurityMiddleware(conf, c, rq, env) ==
  IF conf.Whitelist # {} /\ ClientAddr \notin conf.Whitelist
  THEN [status |-> StatusForbidden, err |-> "not whitelisted"]
  ELSE IF conf.Blacklist # {} /\ ClientAddr \in conf.Blacklist
  THEN [status |-> StatusForbidden, err |-> "blacklisted"]
  ELSE IF conf.URLScanner /\ env.crawler
  THEN [status |-> StatusForbidden, err |-> "your IP address was banned"]
  ELSE IF conf.CSRFTokenRequired /\ ~c.Session.nil /\ rq.Method \in WriteVerbs
  THEN IF rq.csrf # "" /\ rq.csrf # c.Session.CSRFToken
       THEN [status |-> StatusNotAcceptable, err |-> "invalid CSRF token"]
       ELSE IF rq.csrf = ""
       THEN [status |-> StatusNotAcceptable, err |-> "missing CSRF token"]
       ELSE NoVerdict
  ELSE NoVerdict

\* bruteForceMiddleware up to its call of next
bruteForceMiddleware(env) ==
  IF env.tokens = 0
  THEN [status |-> StatusTooManyRequests, err |-> "to many requests"]
  ELSE NoVerdict

\* authMiddleware: the context it passes to next
authMiddleware(c, rq) ==
  IF c.Session.nil /\ rq.sessionID # "none"
  THEN [c EXCEPT !.Session = [nil |-> FALSE, CSRFToken |-> SessionCSRF]]
  ELSE c

\* recoverMiddleware, given how its call of next ended: the deferred
\* function stops the panic, and the function returns the zero value of its
\* result
recoverMiddleware(res) == IF res.panic THEN Returns(res.c, "") ELSE res

\* accessLogMiddleware, given how its call of next ended: the line holds
\* Response.Status and Response.Size; pending are the middlewares around it,
\* whose calls of next have not returned when the line is written
accessLogMiddleware(res, pending) ==
  IF res.panic THEN res
  ELSE [res EXCEPT !.c.lines = Append(@, [s |-> res.c.Response.Status, b |-> res.c.Response.Size,
                                          pending |-> pending])]

\* the function at the end of the chain: handler.Handler of the route, which
\* recovers from a panic of the route method, or staticFileHandler
RouteCall(c, rq, env) ==
  LET c1 == [c EXCEPT !.handled = @ + 1]
  IN  IF rq.static
      THEN IF env.panicAt = "handler" THEN Panics(c1)
           ELSE Returns([c1 EXCEPT !.Response = Write(@, <<"file">>)], "")
      ELSE IF env.panicAt = "handler" THEN Returns(c1, "bad request")
           ELSE LET r == WriteHeader(c1.Response, StatusOK)
                IN  Returns([c1 EXCEPT !.Response = IF env.failed THEN Write(r, <<"error">>) ELSE Write(r, <<"result">>)], "")

\* h(ctx) for the h that wraps the route handler in the first k middlewares:
\* for _, m := range middlewares { h = m(h) }
RECURSIVE Call(_, _, _, _, _, _)
Call(mws, k, conf, c, rq, env) ==
  IF k = 0 THEN RouteCall(c, rq, env)
  ELSE LET m == mws[k]
           verdict == CASE m = "trace" -> traceMiddleware(conf, rq)
                        [] m = "preSecurity" -> preSecurityMiddleware(conf, c, rq, env)
                        [] m = "bruteForce" -> bruteForceMiddleware(env)
                        [] OTHER -> NoVerdict
       IN  IF env.panicAt = m THEN Panics(c)
           ELSE IF verdict.status # 0 THEN Rejects(c, m, verdict.status, verdict.err)
           ELSE IF m = "auth" THEN Call(mws, k - 1, conf, authMiddleware(c, rq), rq, env)
           ELSE IF m = "trace" THEN Call(mws, k - 1, conf, traceHeader(conf, c), rq, env)
           ELSE IF m = "recover" THEN recoverMiddleware(Call(mws, k - 1, conf, c, rq, env))
           ELSE IF m = "accessLog"
           THEN accessLogMiddleware(Call(mws, k - 1, conf, c, rq, env), SubSeq(mws, k + 1, Len(mws)))
           ELSE Call(mws, k - 1, conf, c, rq, env)

\* Server.handler for a request that matches a route or a static file: the
\* chain is composed and called; escaped: the call panicked into net/http;
\* status and body are what the client receives
ServerHandler(mws, conf, rq, env) ==
  LET res == Call(mws, Len(mws), conf, NewContext, rq, env)
      r == res.c.Response
  IN  [served |-> TRUE, path |-> "route", request |-> rq, env |-> env, trace |-> res.c.trace,
       Response |-> r, lines |-> res.c.lines, handled |-> res.c.handled,
       raised |-> res.c.raised, rejected |-> res.c.rejected,
       err |-> res.err, escaped |-> res.panic,
       status |-> IF r.Committed THEN r.Status
                  ELSE IF res.panic THEN 0
                  ELSE IF res.err # "" THEN StatusInternalServerError ELSE StatusOK,
       body |-> IF ~res.panic /\ res.err # "" THEN r.body \o <<res.err>> ELSE r.body]

\* Server.handler for /healthcheck: the status is written on the context's
\* Response and the function returns; no chain is composed
HealthCheck(rq) ==
  LET c == [NewContext EXCEPT !.Response = WriteHeader(@, StatusOK)]
  IN  [served |-> TRUE, path |-> healthCheckPath, request |-> rq,
       env |-> [panicAt |-> "none", crawler |-> FALSE, tokens |-> 1, failed |-> FALSE],
       trace |-> c.trace, Response |-> c.Response, lines |-> c.lines, handled |-> c.handled,
       raised |-> c.raised, rejected |-> c.rejected, err |-> "", escaped |-> FALSE,
       status |-> c.Response.Status, body |-> c.Response.body]

\* Server.Start: UseMiddleware of the built-in middlewares
StartChain ==
  /\ installed = <<>>
  /\ installed' = BuiltIn \o (IF security.BruteForce THEN <<"bruteForce">> ELSE <<>>)
  /\ UNCHANGED <<security, exchange>>

\* the application registers authMiddleware's session recovery with
\* UseMiddleware, before or after Start
UseAuth ==
  /\ "auth" \notin Range(installed)
  /\ ~exchange.served
  /\ installed' = Append(installed, "auth")
  /\ UNCHANGED <<security, exchange>>

\* a request is served; the calls of the chain share nothing from one
\* request to the next, and one request is followed
ServeHTTP ==
  /\ Range(BuiltIn) \subseteq Range(installed)
  /\ ~exchange.served
  /\ \E rq \in ChainRequests, env \in Environments :
       /\ env.panicAt \in Range(installed) \cup {"none", "handler"}
       /\ exchange' \in {ServerHandler(installed, security, rq, env)}
  /\ UNCHANGED <<security, installed>>

InitChain ==
  /\ CoreUnused
  /\ PermUnused
  /\ RestartUnused
  /\ RaceUnused
  /\ LogUnused
  /\ GCUnused
  /\ LockingUnused
  /\ StopUnused
  /\ DepartUnused
  /\ IPUnused
  /\ SessionUnused
  /\ RouteUnused
  /\ TokenUnused
  /\ HandlerUnused
  /\ RetryUnused
  /\ security \in SecurityConfigs
  /\ installed = <<>>
  /\ exchange = NoExchange

NextChain ==
  \/ StartChain /\ UNCHANGED notChain
  \/ UseAuth /\ UNCHANGED notChain
  \/ ServeHTTP /\ UNCHANGED notChain

SpecChain == InitChain /\ [][NextChain]_vars

\* GET /healthcheck is served
ServeHealthCheck ==
  /\ Range(BuiltIn) \subseteq Range(installed)
  /\ ~exchange.served
  /\ \E rq \in {q \in ChainRequests : q.Method = "GET" /\ ~q.static} :
       exchange' = HealthCheck(rq)
  /\ UNCHANGED <<security, installed>>

\* the server with its probe path next to the routes
NextProbe ==
  \/ StartChain /\ UNCHANGED notChain
  \/ UseAuth /\ UNCHANGED notChain
  \/ ServeHTTP /\ UNCHANGED notChain
  \/ ServeHealthCheck /\ UNCHANGED notChain

SpecProbe == InitChain /\ [][NextProbe]_vars

\* C26: GET /healthcheck is answered with status 200 and an empty body, and
\* with tracing enabled the response carries the trace header.
C26_Healthcheck ==
  exchange.served /\ exchange.path = healthCheckPath =>
    /\ exchange.status = StatusOK
    /\ exchange.body = <<>>
    /\ security.EnableTracing => exchange.trace


(***************************************************************************)
(* Claims about the chain                                                  *)
(***************************************************************************)
\* C16: when a middleware or the route handler panics while the request is
\* in the chain, the panic does not leave the chain (Recover catches it) and
\* the chain returns a non-nil error for the request.
C16_PanicIsolation ==
  exchange.served /\ exchange.raised => ~exchange.escaped /\ exchange.err # ""

\* C17: every request that enters the chain gets exactly one access-log
\* line, written when the route handler and every other middleware have
\* returned, and holding the status and the size of the response the client
\* receives; the requests that a middleware rejected are among them.
C17_AccessLog ==
  exchange.served =>
    /\ Len(exchange.lines) = 1
    /\ exchange.lines[1].pending = <<>>
    /\ exchange.lines[1].s = exchange.status
    /\ exchange.lines[1].b = Len(exchange.body)

\* the status stated for each rejection
StatedStatus(text) ==
  CASE text = "trace token required" -> StatusBadRequest
    [] text \in {"not whitelisted", "blacklisted", "your IP address was banned"} -> StatusForbidden
    [] text \in {"missing CSRF token", "invalid CSRF token"} -> StatusNotAcceptable
    [] text = "to many requests" -> StatusTooManyRequests

\* C18: when a middleware rejects a request, the response has the status
\* stated for the rejection and its short text as body, the route handler is
\* not invoked, and the rejecting middleware returns no error to its caller.
C18_ClientRejection ==
  exchange.served /\ exchange.rejected.by # "none" =>
    /\ exchange.status = StatedStatus(exchange.rejected.text)
    /\ exchange.body = <<exchange.rejected.text>>
    /\ exchange.handled = 0
    /\ exchange.rejected.returns = ""

\* the request of scenario S4 was served by a server that requires CSRF
\* tokens: a write verb with the token of a stored session, met by no panic
\* and by no other rejection
ScenarioS4 ==
  /\ exchange.served
  /\ security.CSRFTokenRequired
  /\ exchange.request.Method \in WriteVerbs
  /\ exchange.request.sessionID # "none"
  /\ ~exchange.raised
  /\ exchange.rejected.by # "none" => exchange.rejected.status = StatusNotAcceptable

\* C19: in scenario S4 a request without X-Csrf-Token is answered 406
\* "missing CSRF token", one with a header that differs from the session's
\* CSRF token is answered 406 "invalid CSRF token", and neither reaches the
\* route handler.
C19_CSRFScenarioS4 ==
  ScenarioS4 /\ exchange.request.csrf # SessionCSRF =>
    /\ exchange.status = StatusNotAcceptable
    /\ exchange.body = <<IF exchange.request.csrf = "" THEN "missing CSRF token" ELSE "invalid CSRF token">>
    /\ exchange.handled = 0

(***************************************************************************)
(* The session store over a cache backend (cacheStore over the Redis       *)
(* cache).  A pointer is an address and the value it points to; a string   *)
(* used as a key is the sequence of its pieces.  A TTL of 0 is no expiry.  *)
(***************************************************************************)
\* last instant of the backend's clock
MaxSessionTime == 3
\* the configured session TTL, when it is not 0
MaxTTL == 2

SessionIDs == {"t1", "t2"}
sessionPrefix == <<"session:">>

NilPointer == [nil |-> TRUE, at |-> "", v |-> ""]
PointerTo(at, v) == [nil |-> FALSE, at |-> at, v |-> v]

\* the account ids, and the sessions the callers hold
Accounts == {"a", "b"}
Sessions ==
  [ID : SessionIDs, Persistent : BOOLEAN,
   AccountID : {NilPointer} \cup {PointerTo("caller", a) : a \in Accounts},
   Data : {<<"k", "v">>}]
NilSession == [nil |-> TRUE]

\* json.Marshal of a Session: the members under their json names
Marshal(s) ==
  << <<"sessionid", s.ID>>, <<"data", s.Data>>, <<"persistent", s.Persistent>>,
     <<"accountid", IF s.AccountID.nil THEN <<"null">> ELSE <<"string", s.AccountID.v>> >> >>

Member(raw, name) == raw[CHOOSE i \in 1..Len(raw) : raw[i][1] = name][2]

\* json.Unmarshal into a nil *Session: a new Session, new pointers
Unmarshal(raw) ==
  [nil |-> FALSE,
   ID |-> Member(raw, "sessionid"),
   Data |-> Member(raw, "data"),
   Persistent |-> Member(raw, "persistent"),
   AccountID |-> IF Member(raw, "accountid") = <<"null">> THEN NilPointer
                 ELSE PointerTo("decoded", Member(raw, "accountid")[2])]

\* the key is in the backend at instant t
Live(kvs, k, t) == kvs[k].present /\ (kvs[k].exp = 0 \/ t < kvs[k].exp)

\* a cacheStore.Set that always asks for the configured TTL
cacheStoreSetConfigured(kvs, session, ok, t) ==
  [kv |-> IF ok THEN [kvs EXCEPT ![<<session.ID>>] =
                        [present |-> TRUE, raw |-> Marshal(session),
                         exp |-> IF sconfig.TTL = 0 THEN 0 ELSE t + sconfig.TTL]]
          ELSE kvs,
   ttl |-> sconfig.TTL, err |-> ~ok]

\* cacheStore.Set at instant t; ok: the backend acknowledges the write
cacheStoreSet(kvs, session, ok, t) ==
  LET ttl == IF session.Persistent THEN 0 ELSE sconfig.TTL
  IN  [kv |-> IF ok THEN [kvs EXCEPT ![<<session.ID>>] =
                            [present |-> TRUE, raw |-> Marshal(session),
                             exp |-> IF ttl = 0 THEN 0 ELSE t + ttl]]
              ELSE kvs,
       ttl |-> ttl, err |-> ~ok]

\* cacheStore.Get at instant t: the error of the backend is dropped
cacheStoreGet(kvs, tok, t) ==
  IF <<tok>> \in DOMAIN kvs /\ Live(kvs, <<tok>>, t) THEN Unmarshal(kvs[<<tok>>].raw) ELSE NilSession

\* cacheStore.Del
cacheStoreDel(kvs, tok, ok) ==
  [kv |-> IF ok THEN [kvs EXCEPT ![<<tok>>] = NoEntry] ELSE kvs, err |-> ~ok]

\* Cache.Keys(prefix + "*")
Keys(kvs, prefix, t) == {k \in DOMAIN kvs : Live(kvs, k, t) /\ HasPrefix(k, prefix)}

\* cacheStore.List at instant t: the sessions appended to res, and whether
\* the call panicked on a nil accountID
cacheStoreList(kvs, accountID, t) ==
  LET found == {k \in Keys(kvs, sessionPrefix, t) :
                  ~cacheStoreGet(kvs, TrimPrefix(k, sessionPrefix)[1], t).nil}
      tmp(k) == cacheStoreGet(kvs, TrimPrefix(k, sessionPrefix)[1], t)
  IN  IF found # {} /\ accountID.nil THEN [panic |-> TRUE, res |-> {}]
      ELSE [panic |-> FALSE,
            res |-> {tmp(k) : k \in {f \in found :
                       IF accountID.v # "" THEN tmp(f).AccountID = accountID ELSE TRUE}}]

\* the filters handed to List: nil, a blank string, an account id
Filters == {NilPointer, PointerTo("caller", "")} \cup {PointerTo("caller", a) : a \in Accounts}

SetCall(s, ok) ==
  LET set == cacheStoreSet(kv, s, ok, stime)
  IN  /\ kv' = set.kv
      /\ acked' = IF ok THEN [acked EXCEPT ![s.ID] = [present |-> TRUE, s |-> s, ttl |-> set.ttl, at |-> stime]]
                  ELSE acked
      /\ last' = [op |-> "Set", err |-> set.err]
      /\ UNCHANGED <<sconfig, stime>>

GetCall(tok) ==
  /\ last' = [op |-> "Get", token |-> tok, at |-> stime, session |-> cacheStoreGet(kv, tok, stime)]
  /\ UNCHANGED <<sconfig, kv, stime, acked>>

DelCall(tok, ok) ==
  LET del == cacheStoreDel(kv, tok, ok)
  IN  /\ kv' = del.kv
      /\ acked' = IF ok THEN [acked EXCEPT ![tok] = NoAck] ELSE acked
      /\ last' = [op |-> "Del", err |-> del.err]
      /\ UNCHANGED <<sconfig, stime>>

ListCall(accountID) ==
  /\ last' = [op |-> "List", accountID |-> accountID, at |-> stime,
              list |-> cacheStoreList(kv, accountID, stime)]
  /\ UNCHANGED <<sconfig, kv, stime, acked>>

TickSession ==
  /\ stime < MaxSessionTime
  /\ stime' = stime + 1
  /\ UNCHANGED <<sconfig, kv, acked, last>>

InitSession ==
  /\ CoreUnused
  /\ PermUnused
  /\ RestartUnused
  /\ RaceUnused
  /\ LogUnused
  /\ GCUnused
  /\ LockingUnused
  /\ StopUnused
  /\ DepartUnused
  /\ IPUnused
  /\ RouteUnused
  /\ TokenUnused
  /\ HandlerUnused
  /\ RetryUnused
  /\ ChainUnused
  /\ sconfig \in [TTL : {0, MaxTTL}]
  /\ kv = [k \in BackendKeys |-> NoEntry]
  /\ stime = 0
  /\ acked = [id \in SessionIDs |-> NoAck]
  /\ last = [op |-> "none"]

NextSession ==
  \/ \E s \in Sessions, ok \in BOOLEAN : SetCall(s, ok) /\ UNCHANGED notSession
  \/ \E tok \in SessionIDs : GetCall(tok) /\ UNCHANGED notSession
  \/ \E tok \in SessionIDs, ok \in BOOLEAN : DelCall(tok, ok) /\ UNCHANGED notSession
  \/ \E accountID \in Filters : ListCall(accountID) /\ UNCHANGED notSession
  \/ TickSession /\ UNCHANGED notSession

SpecSession == InitSession /\ [][NextSession]_vars

(***************************************************************************)
(* Claims about the session store                                          *)
(***************************************************************************)
\* two sessions hold the same values
SameSession(a, b) ==
  /\ a.ID = b.ID /\ a.Persistent = b.Persistent /\ a.Data = b.Data
  /\ a.AccountID.nil = b.AccountID.nil /\ a.AccountID.v = b.AccountID.v

\* the acknowledged Set of the id has not expired
Unexpired(id) == acked[id].present /\ (acked[id].ttl = 0 \/ stime < acked[id].at + acked[id].ttl)

Values(s) ==
  [ID |-> s.ID, Persistent |-> s.Persistent, Data |-> s.Data,
   account |-> IF s.AccountID.nil THEN <<>> ELSE <<s.AccountID.v>>]

\* the sessions stored through Set at this instant that the filter selects
Selected(accountID) ==
  {Values(acked[id].s) : id \in {i \in SessionIDs :
     /\ Unexpired(i)
     /\ accountID.nil \/ accountID.v = "" \/ Values(acked[i].s).account = <<accountID.v>>}}

\* C22: List(filter) returns exactly the sessions stored through Set (and
\* not deleted since) whose account id equals the filter value, and all the
\* stored sessions when the filter is nil or blank.
C22_SessionListing ==
  last.op = "List" /\ last.at = stime =>
    /\ ~last.list.panic
    /\ {Values(s) : s \in last.list.res} = Selected(last.accountID)

(***************************************************************************)
(* security.CheckIP and the matchers of utils/net.  A string is the        *)
(* sequence of its pieces: decimal numbers, ".", "/", "-", "*"; a parsed   *)
(* IP is its four octets, <<>> when the parse fails (nil).                 *)
(***************************************************************************)
\* patterns in the list handed to CheckIP
MaxList == 2

\* the decimal numbers that occur, and their values
Decimal == [n \in {"0", "1", "5", "9", "10", "24", "255", "300"} |->
              CASE n = "0" -> 0 [] n = "1" -> 1 [] n = "5" -> 5 [] n = "9" -> 9 [] n = "10" -> 10
                [] n = "24" -> 24 [] n = "255" -> 255 [] n = "300" -> 300]

Dotted(a, b, c, d) == <<a, ".", b, ".", c, ".", d>>

\* net.ParseIP for dotted decimal
ParseIP(str) ==
  IF /\ Len(str) = 7
     /\ \A i \in {2, 4, 6} : str[i] = "."
     /\ \A i \in {1, 3, 5, 7} : str[i] \in DOMAIN Decimal /\ Decimal[str[i]] <= 255
  THEN <<Decimal[str[1]], Decimal[str[3]], Decimal[str[5]], Decimal[str[7]]>>
  ELSE <<>>

\* net.ParseCIDR: the address and the length of the prefix, <<>> on an error
ParseCIDR(str) ==
  IF /\ Len(str) = 9
     /\ str[8] = "/"
     /\ ParseIP(SubSeq(str, 1, 7)) # <<>>
     /\ str[9] \in DOMAIN Decimal /\ Decimal[str[9]] <= 32
  THEN <<ParseIP(SubSeq(str, 1, 7)), Decimal[str[9]]>>
  ELSE <<>>

Pow2(n) == IF n = 0 THEN 1 ELSE IF n = 1 THEN 2 ELSE IF n = 2 THEN 4 ELSE IF n = 3 THEN 8
           ELSE IF n = 4 THEN 16 ELSE IF n = 5 THEN 32 ELSE IF n = 6 THEN 64 ELSE IF n = 7 THEN 128 ELSE 256

\* the bits of octet j that a prefix of the given length covers
PrefixBits(length, j) ==
  IF length >= 8 * j THEN 8 ELSE IF length <= 8 * (j - 1) THEN 0 ELSE length - 8 * (j - 1)

\* IPNet.Contains
NetContains(network, length, ip) ==
  \A j \in 1..4 :
    ip[j] \div Pow2(8 - PrefixBits(length, j)) = network[j] \div Pow2(8 - PrefixBits(length, j))

\* CIDRMatch
CIDRMatch(ip, cidr) ==
  IF ParseCIDR(cidr) = <<>> THEN FALSE
  ELSE NetContains(ParseCIDR(cidr)[1], ParseCIDR(cidr)[2], ip)

\* bytes.Compare(a, b) <= 0
BytesLeq(a, b) ==
  \/ a = b
  \/ \E j \in 1..4 : a[j] < b[j] /\ \A i \in 1..j - 1 : a[i] = b[i]

\* IPBetween
IPBetween(from, to, userIp) ==
  IF from = <<>> \/ to = <<>> \/ userIp = <<>> THEN FALSE
  ELSE BytesLeq(from, userIp) /\ BytesLeq(userIp, to)

\* BetweenMatch: the block is split at "-" and both parts are parsed as IPs
BetweenMatch(addr, block) ==
  LET ips == Split(block, "-")
  IN  IPBetween(ParseIP(ips[1]), ParseIP(ips[2]), addr)

\* strings.ReplaceAll
ReplaceAll(str, old, new) == [i \in 1..Len(str) |-> IF str[i] = old THEN new ELSE str[i]]

\* WildcardMatch
WildcardMatch(userIP, wildcardIP) ==
  IF ParseIP(ReplaceAll(wildcardIP, "*", "0")) # <<>>
  THEN IPBetween(ParseIP(ReplaceAll(wildcardIP, "*", "0")), ParseIP(ReplaceAll(wildcardIP, "*", "255")), userIP)
  ELSE FALSE

\* the case of CheckIP's switch for one pattern of the list
MatchOne(userIP, addr) ==
  IF ParseCIDR(addr) # <<>> THEN CIDRMatch(userIP, addr)
  ELSE IF Contains(addr, "-") THEN BetweenMatch(userIP, addr)
  ELSE IF Contains(addr, "*") THEN WildcardMatch(userIP, addr)
  ELSE ParseIP(addr) # <<>> /\ userIP = ParseIP(addr)

\* a CheckIP that looks at the first pattern only
CheckIPFirst(ip, list) ==
  ParseIP(ip) # <<>> /\ list # <<>> /\ MatchOne(ParseIP(ip), list[1])

\* CheckIP
CheckIP(ip, list) ==
  ParseIP(ip) # <<>> /\ \E i \in 1..Len(list) : MatchOne(ParseIP(ip), list[i])

\* the patterns of the lists: exact, CIDR, last-octet range, range of two
\* IPs, wildcards, and text that is none of them
Patterns ==
  {Dotted("10", "0", "0", "5"), Dotted("10", "0", "1", "5"),
   Dotted("10", "0", "0", "0") \o <<"/", "24">>,
   Dotted("10", "0", "0", "1") \o <<"-", "5">>,
   Dotted("10", "0", "0", "1") \o <<"-">> \o Dotted("10", "0", "0", "5"),
   Dotted("10", "0", "*", "*"), <<"*">>, Dotted("10", "0", "0", "300")}

\* the candidates: IPs, and text that does not parse
Candidates ==
  {Dotted("10", "0", c, d) : c \in {"0", "1"}, d \in {"1", "5", "9"}}
    \cup {Dotted("9", "0", "0", "5"), Dotted("10", "0", "0", "300"), <<"*">>}

\* the caller spells the list
AddPattern(p) ==
  /\ matched = "none"
  /\ Len(ipList) < MaxList
  /\ ipList' = Append(ipList, p)
  /\ UNCHANGED <<candidate, matched>>

CheckIPCall(ip) ==
  /\ matched = "none"
  /\ candidate' = ip
  /\ matched' = IF CheckIP(ip, ipList) THEN "true" ELSE "false"
  /\ UNCHANGED ipList

InitIP ==
  /\ CoreUnused
  /\ PermUnused
  /\ RestartUnused
  /\ RaceUnused
  /\ LogUnused
  /\ GCUnused
  /\ LockingUnused
  /\ StopUnused
  /\ DepartUnused
  /\ RouteUnused
  /\ TokenUnused
  /\ HandlerUnused
  /\ RetryUnused
  /\ ChainUnused
  /\ SessionUnused
  /\ ipList = <<>>
  /\ candidate = <<>>
  /\ matched = "none"

NextIP ==
  \/ \E p \in Patterns : AddPattern(p) /\ UNCHANGED notIP
  \/ \E ip \in Candidates : CheckIPCall(ip) /\ UNCHANGED notIP

SpecIP == InitIP /\ [][NextIP]_vars

\* the pattern matches the IP as the matcher is described: an exact IP, a
\* CIDR block containing it, a last-octet range A.B.C.D-E, a wildcard with
\* each * standing for 0..255, or * alone for any IP
StatedMatch(ip, p) ==
  \/ ParseIP(p) # <<>> /\ ParseIP(p) = ip
  \/ ParseCIDR(p) # <<>> /\ NetContains(ParseCIDR(p)[1], ParseCIDR(p)[2], ip)
  \/ /\ Len(p) = 9 /\ p[8] = "-" /\ ParseIP(SubSeq(p, 1, 7)) # <<>>
     /\ p[9] \in DOMAIN Decimal /\ Decimal[p[9]] <= 255
     /\ \A j \in 1..3 : ip[j] = ParseIP(SubSeq(p, 1, 7))[j]
     /\ ParseIP(SubSeq(p, 1, 7))[4] <= ip[4] /\ ip[4] <= Decimal[p[9]]
  \/ /\ Contains(p, "*") /\ Len(p) = 7
     /\ ParseIP(ReplaceAll(p, "*", "0")) # <<>>
     /\ \A j \in 1..4 : p[2 * j - 1] = "*" \/ ip[j] = Decimal[p[2 * j - 1]]
  \/ p = <<"*">>

\* C23: CheckIP(ip, list) returns true exactly when the ip parses and some
\* pattern of the list matches it - an exact IP, a CIDR block, a last-octet
\* range, a wildcard, or * - and false otherwise.
C23_IPMatcher ==
  matched # "none" =>
    (matched = "true" <=>
       /\ ParseIP(candidate) # <<>>
       /\ \E i \in 1..Len(ipList) : StatedMatch(ParseIP(candidate), ipList[i]))

(***************************************************************************)
(* Cluster.Leave and the ping goroutine of the leaving node.  Leave shares *)
(* no lock with the goroutine; it only closes the stop channel, which the  *)
(* goroutine reads in its select, next to the channels of its tickers.     *)
(***************************************************************************)
Tickers == {"timer", "lockTimer", "gcTimer"}

\* a ticker delivers a tick; its channel holds one tick at most
TickerFires(t) ==
  /\ gpc # "returned"
  /\ t \notin ticks
  /\ ticks' = ticks \cup {t}
  /\ UNCHANGED <<nodeEntry, subscription, stop, gpc, held, leaveErr, since>>

\* the select of ping: one of the cases that are ready is taken, the stop
\* case being ready once the channel is closed
PingSelect(c) ==
  /\ gpc = "select"
  /\ \/ c \in ticks
     \/ c = "stop" /\ stop = "closed"
  /\ gpc' = IF c = "stop" THEN "returned" ELSE c
  /\ ticks' = ticks \ {c}
  /\ UNCHANGED <<nodeEntry, subscription, stop, held, leaveErr, since>>

\* what the goroutine does is recorded once Leave has returned nil
Since(act) == IF leaveErr = "nil" THEN since \cup {act} ELSE since

\* case <-timer.C: writeNodeInfo, an HSet whose error is dropped
PingWriteNodeInfo ==
  /\ gpc = "timer"
  /\ \E hsetOk \in BOOLEAN : nodeEntry' = (hsetOk \/ nodeEntry)
  /\ since' = Since("writeNodeInfo")
  /\ gpc' = "select"
  /\ UNCHANGED <<subscription, stop, ticks, held, leaveErr>>

\* case <-lockTimer.C: every active lock is written again
PingLocks ==
  /\ gpc = "lockTimer"
  /\ since' = IF held THEN Since("renewal") ELSE since
  /\ gpc' = "select"
  /\ UNCHANGED <<nodeEntry, subscription, stop, ticks, held, leaveErr>>

\* case <-gcTimer.C: under the cluster-gc lock the entries last seen more
\* than pingTime ago are deleted, the node's own among them if it is stale
PingGC ==
  /\ gpc = "gcTimer"
  /\ \E locked \in BOOLEAN, stale \in BOOLEAN :
       /\ nodeEntry' = (nodeEntry /\ ~(locked /\ stale))
       /\ since' = IF locked THEN Since("gc") ELSE since
  /\ gpc' = "select"
  /\ UNCHANGED <<subscription, stop, ticks, held, leaveErr>>

\* Cluster.Leave: Publish, whose error ends the call; HDel, its error
\* dropped; pubSub.Close; close(c.stop)
LeaveCall(publishOk, hdelOk) ==
  /\ leaveErr = "none"
  /\ IF publishOk
     THEN /\ nodeEntry' = (nodeEntry /\ ~hdelOk)
          /\ subscription' = "closed"
          /\ stop' = "closed"
          /\ leaveErr' = "nil"
     ELSE /\ leaveErr' = "error"
          /\ UNCHANGED <<nodeEntry, subscription, stop>>
  /\ UNCHANGED <<ticks, gpc, held, since>>

\* the node has joined: Join wrote its nodeInfo, subscribed and started ping
InitDepart ==
  /\ CoreUnused
  /\ PermUnused
  /\ RestartUnused
  /\ RaceUnused
  /\ LogUnused
  /\ GCUnused
  /\ LockingUnused
  /\ StopUnused
  /\ RouteUnused
  /\ TokenUnused
  /\ HandlerUnused
  /\ RetryUnused
  /\ ChainUnused
  /\ SessionUnused
  /\ IPUnused
  /\ nodeEntry = TRUE
  /\ subscription = "open"
  /\ stop = "open"
  /\ ticks = {}
  /\ gpc = "select"
  /\ held \in BOOLEAN
  /\ leaveErr = "none"
  /\ since = {}

NextDepart ==
  \/ \E t \in Tickers : TickerFires(t) /\ UNCHANGED notDepart
  \/ \E c \in Tickers \cup {"stop"} : PingSelect(c) /\ UNCHANGED notDepart
  \/ PingWriteNodeInfo /\ UNCHANGED notDepart
  \/ PingLocks /\ UNCHANGED notDepart
  \/ PingGC /\ UNCHANGED notDepart
  \/ \E publishOk \in BOOLEAN, hdelOk \in BOOLEAN : LeaveCall(publishOk, hdelOk) /\ UNCHANGED notDepart

SpecDepart == InitDepart /\ [][NextDepart]_vars

\* C24: after Leave() returns nil the node's hash nodeEntry is absent and is not
\* created again by the node, its subscription is closed, and its background
\* task refreshes no node info, renews no lock and makes no GC pass, whatever
\* step of the task was in progress.
C24_LeaveIsFinal ==
  leaveErr = "nil" =>
    /\ ~nodeEntry
    /\ subscription = "closed"
    /\ since = {}

(***************************************************************************)
(* Server.Stop called again and again on a started server.                 *)
(***************************************************************************)
\* Stop calls followed
MaxStops == 3
\* requests served at a time
MaxServing == 2
\* the clock stops here
MaxStopClock == 12

NotStopping == [pc |-> "idle", err |-> "nil", since |-> 0]

\* an http.Server whose Shutdown refuses a second call
ShutdownOnce(l, closeOk) ==
  [listener |-> "closed",
   err |-> IF l = "open" THEN (IF closeOk THEN "nil" ELSE "close") ELSE "ErrServerClosed"]

\* http.Server.Shutdown: the listeners still tracked are closed and the
\* error of closing them is the result; none is tracked after the first call
Shutdown(l, closeOk) ==
  [listener |-> "closed",
   err |-> IF l = "open" /\ ~closeOk THEN "close" ELSE "nil"]

\* a request is accepted: Server.handler begins with active.Add(1)
HandlerEnters ==
  /\ listener = "open"
  /\ serving < MaxServing
  /\ serving' = serving + 1
  /\ UNCHANGED <<listener, startedFlag, stopping, stops, sclock>>

\* Server.handler returns: the deferred active.Done()
HandlerReturns ==
  /\ serving > 0
  /\ serving' = serving - 1
  /\ UNCHANGED <<listener, startedFlag, stopping, stops, sclock>>

\* Stop is called: Shutdown closes the listener and waits for the
\* connections to become idle
StopBegins ==
  /\ stopping.pc = "idle"
  /\ Len(stops) < MaxStops
  /\ \E closeOk \in BOOLEAN :
       /\ listener' = Shutdown(listener, closeOk).listener
       /\ stopping' = [pc |-> "shutdown", err |-> Shutdown(listener, closeOk).err, since |-> 0]
  /\ UNCHANGED <<serving, startedFlag, stops, sclock>>

\* Shutdown returns; Stop starts the goroutines that wait on the counter and
\* sets started to false
StopWaits ==
  /\ stopping.pc = "shutdown"
  /\ serving = 0
  /\ stopping' = [stopping EXCEPT !.pc = "waiting", !.since = sclock]
  /\ startedFlag' = FALSE
  /\ UNCHANGED <<listener, serving, stops, sclock>>

\* the select: the counter is zero or ten seconds have passed; stopped is
\* closed and Stop returns what Shutdown returned
StopReturns ==
  /\ stopping.pc = "waiting"
  /\ serving = 0 \/ sclock >= stopping.since + StopTimeout
  /\ stops' = Append(stops, [err |-> stopping.err, listener |-> listener,
                             started |-> startedFlag, active |-> serving])
  /\ stopping' = NotStopping
  /\ UNCHANGED <<listener, serving, startedFlag, sclock>>

TickStop ==
  /\ sclock < MaxStopClock
  /\ sclock' = sclock + 1
  /\ UNCHANGED <<listener, serving, startedFlag, stopping, stops>>

\* the server after Start: the listener is open
InitStop ==
  /\ CoreUnused
  /\ PermUnused
  /\ RestartUnused
  /\ RaceUnused
  /\ LogUnused
  /\ GCUnused
  /\ LockingUnused
  /\ RouteUnused
  /\ TokenUnused
  /\ HandlerUnused
  /\ RetryUnused
  /\ ChainUnused
  /\ SessionUnused
  /\ IPUnused
  /\ DepartUnused
  /\ listener = "open"
  /\ serving = 0
  /\ startedFlag = TRUE
  /\ stopping = NotStopping
  /\ stops = <<>>
  /\ sclock = 0

NextStop ==
  \/ HandlerEnters /\ UNCHANGED notStop
  \/ HandlerReturns /\ UNCHANGED notStop
  \/ StopBegins /\ UNCHANGED notStop
  \/ StopWaits /\ UNCHANGED notStop
  \/ StopReturns /\ UNCHANGED notStop
  \/ TickStop /\ UNCHANGED notStop

SpecStop == InitStop /\ [][NextStop]_vars

\* the state a completed Stop call left
StoppedState(i) == [listener |-> stops[i].listener, started |-> stops[i].started, active |-> stops[i].active]

\* C25: a Stop() after a completed Stop() returns normally, with no error,
\* and leaves the server in the stopped state the first one left.
C25_StopIdempotent ==
  \A i \in 2..Len(stops) :
    /\ stops[i].err = "nil"
    /\ StoppedState(i) = StoppedState(1)
    /\ StoppedState(i) = [listener |-> "closed", started |-> FALSE, active |-> 0]

\* a second Stop has returned, after a first one whose Shutdown reported
\* the listener's error
C25_Witness == Len(stops) >= 2 /\ stops[1].err = "close"

(***************************************************************************)
(* The collector's mutex.  A goroutine is followed through the operations  *)
(* on the map and the heap of Collector.Add, Collector.Remove and          *)
(* removeEmptyBuckets, each of which takes time.                           *)
(***************************************************************************)
\* goroutines that call Collector.Add
MaxAdders == 3

Adders == 1..MaxAdders
\* the ticker's goroutine, and one that calls Collector.Remove
Sweeper == MaxAdders + 1
Remover == MaxAdders + 2
Goroutines == 1..MaxAdders + 2

\* c.lock.Lock()
CollectorLock(g, at) ==
  /\ gpos[g] = "idle"
  /\ owner = {}
  /\ owner' = {g}
  /\ gpos' = [gpos EXCEPT ![g] = at]

\* c.lock.Unlock()
CollectorUnlock(g, at) ==
  /\ owner' = owner \ {g}
  /\ gpos' = [gpos EXCEPT ![g] = at]

\* Collector.Add: the lock is taken; the map is read and, for a new key, the
\* bucket is pushed and stored
AddEnters(g) == CollectorLock(g, "map")

\* Collector.Add: the lock is released
AddLeaves(g) ==
  /\ gpos[g] = "map"
  /\ CollectorUnlock(g, "bucket")

\* a Collector.Add that takes the lock again when b.Add admitted something
AddFixLocked(g, n) ==
  /\ gpos[g] = "bucket"
  /\ IF n > 0 THEN owner = {} /\ owner' = {g} ELSE owner' = owner
  /\ gpos' = [gpos EXCEPT ![g] = IF n > 0 THEN "fix" ELSE "idle"]

\* Collector.Add: n := b.Add(amount); heap.Fix begins if n > 0
AddBucket(g, n) ==
  /\ gpos[g] = "bucket"
  /\ owner' = owner
  /\ gpos' = [gpos EXCEPT ![g] = IF n > 0 THEN "fix" ELSE "idle"]

\* Collector.Add: heap.Fix is done and Add returns
AddReturns(g) ==
  /\ gpos[g] = "fix"
  /\ CollectorUnlock(g, "idle")

\* removeEmptyBuckets: the lock is taken and the heap is peeked, the drained
\* buckets are deleted from the map and removed from the heap
SweepEnters == CollectorLock(Sweeper, "sweep")

SweepLeaves ==
  /\ gpos[Sweeper] = "sweep"
  /\ CollectorUnlock(Sweeper, "idle")

\* Collector.Remove: under the lock the bucket is deleted and removed
RemoveEnters == CollectorLock(Remover, "remove")

RemoveLeaves ==
  /\ gpos[Remover] = "remove"
  /\ CollectorUnlock(Remover, "idle")

InitLocking ==
  /\ CoreUnused
  /\ PermUnused
  /\ RestartUnused
  /\ RaceUnused
  /\ LogUnused
  /\ GCUnused
  /\ RouteUnused
  /\ TokenUnused
  /\ HandlerUnused
  /\ RetryUnused
  /\ ChainUnused
  /\ SessionUnused
  /\ IPUnused
  /\ DepartUnused
  /\ StopUnused
  /\ owner = {}
  /\ gpos = [g \in Goroutines |-> "idle"]

NextLocking ==
  \/ \E g \in Adders : AddEnters(g) /\ UNCHANGED notLocking
  \/ \E g \in Adders : AddLeaves(g) /\ UNCHANGED notLocking
  \/ \E g \in Adders, n \in {0, 1} : AddBucket(g, n) /\ UNCHANGED notLocking
  \/ \E g \in Adders : AddReturns(g) /\ UNCHANGED notLocking
  \/ SweepEnters /\ UNCHANGED notLocking
  \/ SweepLeaves /\ UNCHANGED notLocking
  \/ RemoveEnters /\ UNCHANGED notLocking
  \/ RemoveLeaves /\ UNCHANGED notLocking

SpecLocking == InitLocking /\ [][NextLocking]_vars

\* the goroutine is inside an operation on the map or the heap
Touches(g) == gpos[g] \in {"map", "fix", "sweep", "remove"}

\* C28: a goroutine holds the collector's mutex whenever it touches the map
\* or the heap, the heap fix of Add included, so no heap operation of one
\* goroutine overlaps a heap or map operation of another.
C28_CollectorLocking ==
  /\ \A g \in Goroutines : Touches(g) => owner = {g}
  /\ \A g \in Goroutines, h \in Goroutines : Touches(g) /\ Touches(h) => g = h

(***************************************************************************)
(* The node table: writeNodeInfo on the ticker timer, and the gcTimer case *)
(* of Cluster.ping, which takes the lock cluster-gc, reads the table with  *)
(* HGetAll, takes time.Now() and deletes the fields last seen more than    *)
(* pingTime before it.  A tick is ten seconds.                             *)
(***************************************************************************)
\* time.Second * 30
pingTime == 3
\* the clock stops here
MaxGCClock == 8
\* ticks a pass may take between its gcTimer tick and its time.Now()
MaxLatency == 1
\* the second node joins this many ticks after the first, at most
MaxOffset == 1
\* HGetAll calls that fail
MaxOutage == 1

Absent == [present |-> FALSE, LastSeen |-> 0]
NoPass == [at |-> "select", since |-> 0, records |-> <<>>]

\* the record of the lock is kept by the renewal of a node whose activeLocks
\* holds it, and expires otherwise
GCRecordHeld == \E n \in Nodes : gcLocks[n]

\* case <-timer.C: writeNodeInfo
WriteNodeInfo(n) ==
  /\ running[n]
  /\ pass[n].at = "select"
  /\ gclock >= nextPing[n]
  /\ members' = [members EXCEPT ![n] = [present |-> TRUE, LastSeen |-> gclock]]
  /\ nextPing' = [nextPing EXCEPT ![n] = @ + pingTime]
  /\ UNCHANGED <<gclock, counter, running, nextGC, pass, gcLocks, lastPass, outage>>

\* case <-gcTimer.C: Lock("cluster-gc"); on an error the loop continues
GCLock(n) ==
  /\ running[n]
  /\ pass[n].at = "select"
  /\ gclock >= nextGC[n]
  /\ nextGC' = [nextGC EXCEPT ![n] = @ + 2 * pingTime]
  /\ IF gcLocks[n] \/ GCRecordHeld
     THEN UNCHANGED <<pass, gcLocks>>
     ELSE /\ gcLocks' = [gcLocks EXCEPT ![n] = TRUE]
          /\ pass' = [pass EXCEPT ![n] = [at |-> "locked", since |-> gclock, records |-> <<>>]]
  /\ UNCHANGED <<gclock, members, counter, running, nextPing, lastPass, outage>>

\* a pass that unlocks before it continues after a failed HGetAll
GCReadUnlocks(n, ok) ==
  /\ running[n]
  /\ pass[n].at = "locked"
  /\ IF ok
     THEN /\ pass' = [pass EXCEPT ![n].at = "read", ![n].records = members]
          /\ UNCHANGED <<gcLocks, outage>>
     ELSE /\ outage > 0
          /\ outage' = outage - 1
          /\ pass' = [pass EXCEPT ![n] = NoPass]
          /\ gcLocks' = [gcLocks EXCEPT ![n] = FALSE]
  /\ UNCHANGED <<gclock, members, counter, running, nextPing, nextGC, lastPass>>

\* records, err := c.cache.HGetAll(c.key); on an error the loop continues
GCRead(n, ok) ==
  /\ running[n]
  /\ pass[n].at = "locked"
  /\ IF ok
     THEN /\ pass' = [pass EXCEPT ![n].at = "read", ![n].records = members]
          /\ UNCHANGED outage
     ELSE /\ outage > 0
          /\ outage' = outage - 1
          /\ pass' = [pass EXCEPT ![n] = NoPass]
  /\ UNCHANGED <<gclock, members, counter, running, nextPing, nextGC, gcLocks, lastPass>>

\* node.LastSeen.Add(pingTime).Before(now)
Stale(record, t) == record.present /\ record.LastSeen + pingTime < t

\* now := time.Now(); the loop over the records, which skips nodeId and
\* deletes the stale fields; Unlock("cluster-gc")
GCSweep(n) ==
  /\ running[n]
  /\ pass[n].at = "read"
  /\ LET deleted == {k \in Nodes : Stale(pass[n].records[k], gclock)}
     IN  /\ members' = [k \in Nodes |-> IF k \in deleted THEN Absent ELSE members[k]]
         /\ lastPass' = [by |-> n, now |-> gclock, records |-> pass[n].records, deleted |-> deleted]
  /\ pass' = [pass EXCEPT ![n] = NoPass]
  /\ gcLocks' = [gcLocks EXCEPT ![n] = FALSE]
  /\ UNCHANGED <<gclock, counter, running, nextPing, nextGC, outage>>

\* the process of a node dies
NodeDies(n) ==
  /\ running[n]
  /\ \E m \in Nodes \ {n} : running[m]
  /\ running' = [running EXCEPT ![n] = FALSE]
  /\ pass' = [pass EXCEPT ![n] = NoPass]
  /\ gcLocks' = [gcLocks EXCEPT ![n] = FALSE]
  /\ UNCHANGED <<gclock, members, counter, nextPing, nextGC, lastPass, outage>>

\* a tick passes: the tickers that are due have been served by the nodes
\* that wait in select, and a pass reaches its time.Now() within MaxLatency
TickGC ==
  /\ gclock < MaxGCClock
  /\ \A n \in Nodes :
       running[n] =>
         IF pass[n].at = "select" THEN gclock < nextPing[n] /\ gclock < nextGC[n]
         ELSE gclock < pass[n].since + MaxLatency
  /\ gclock' = gclock + 1
  /\ UNCHANGED <<members, counter, running, nextPing, nextGC, pass, gcLocks, lastPass, outage>>

\* the nodes have joined, the second up to MaxOffset after the first: Join
\* incremented nodeId, wrote the node info and started the tickers
InitGC ==
  /\ CoreUnused
  /\ PermUnused
  /\ RestartUnused
  /\ RaceUnused
  /\ LogUnused
  /\ RouteUnused
  /\ TokenUnused
  /\ HandlerUnused
  /\ RetryUnused
  /\ ChainUnused
  /\ SessionUnused
  /\ IPUnused
  /\ DepartUnused
  /\ StopUnused
  /\ LockingUnused
  /\ \E offset \in 0..MaxOffset :
       LET joined == [n \in Nodes |-> IF n = 1 THEN 0 ELSE offset]
       IN  /\ gclock = offset
           /\ members = [n \in Nodes |-> [present |-> TRUE, LastSeen |-> joined[n]]]
           /\ nextPing = [n \in Nodes |-> joined[n] + pingTime]
           /\ nextGC = [n \in Nodes |-> joined[n] + 2 * pingTime]
  /\ counter = TRUE
  /\ running = [n \in Nodes |-> TRUE]
  /\ pass = [n \in Nodes |-> NoPass]
  /\ gcLocks = [n \in Nodes |-> FALSE]
  /\ lastPass = [by |-> 0]
  /\ outage = MaxOutage

NextGC ==
  \/ \E n \in Nodes : WriteNodeInfo(n) /\ UNCHANGED notGC
  \/ \E n \in Nodes : GCLock(n) /\ UNCHANGED notGC
  \/ \E n \in Nodes, ok \in BOOLEAN : GCRead(n, ok) /\ UNCHANGED notGC
  \/ \E n \in Nodes : GCSweep(n) /\ UNCHANGED notGC
  \/ \E n \in Nodes : NodeDies(n) /\ UNCHANGED notGC
  \/ TickGC /\ UNCHANGED notGC

SpecGC == InitGC /\ [][NextGC]_vars

\* C31: a GC pass removes exactly the entries whose lastSeen + pingTime is
\* before its now, never the nodeId field, and never the entry of a live
\* node, which refreshes its info every pingTime.
C31_StaleNodeGC ==
  /\ counter
  /\ lastPass.by # 0 => lastPass.deleted = {k \in Nodes : Stale(lastPass.records[k], lastPass.now)}
  /\ \A n \in Nodes : running[n] => members[n].present

\* C35: a GC pass that acquired the cluster-gc lock has released it when
\* the pass ends, on every path, the failed read of the node table included.
C35_GCLockReleased ==
  \A n \in Nodes : running[n] /\ pass[n].at = "select" => ~gcLocks[n]

(***************************************************************************)
(* Package log: the level functions, the queue and its consumer            *)
(* processLogs.  An entry is its id, the number of the call that made it,  *)
(* and its level.                                                          *)
(***************************************************************************)
FatalLevel == 2
ErrorLevel == 3
InfoLevel == 5

\* the depth of the channel, 1024 in the code
QueueDepth == 2
\* calls of the level functions
MaxEntries == 4
\* goroutines that log
MaxProducers == 2

Producers == 1..MaxProducers
LogLevels == {FatalLevel, ErrorLevel, InfoLevel}

\* the producer waits in a send on the full channel
Blocked(p) == \E i \in 1..Len(sendq) : sendq[i].p = p

\* queue <- entry
Send(p, e) ==
  IF Len(queue) < QueueDepth /\ sendq = <<>>
  THEN queue' = Append(queue, e) /\ sendq' = sendq
  ELSE sendq' = Append(sendq, [p |-> p, e |-> e]) /\ queue' = queue

\* a Fatal that goes through the queue like the other levels
FatalQueued(p, id) ==
  /\ offered' = Append(offered, id)
  /\ Send(p, [id |-> id, level |-> FatalLevel])
  /\ UNCHANGED <<written, exited>>

\* Fatal and Fatalf: printLog(entry) by the caller, which writes the entry
\* and exits the process unless testMode is set
Fatal(p, id) ==
  /\ offered' = Append(offered, id)
  /\ written' = Append(written, id)
  /\ exited' = ~testMode
  /\ UNCHANGED <<queue, sendq>>

\* Error, Warn, Info, Debug and Panic: the entry is sent to the queue
Enqueue(p, id, lvl) ==
  /\ offered' = Append(offered, id)
  /\ Send(p, [id |-> id, level |-> lvl])
  /\ UNCHANGED <<written, exited>>

\* a call of a level function by producer p
LogCall(p, lvl) ==
  /\ ~exited
  /\ ~Blocked(p)
  /\ Len(offered) < MaxEntries
  /\ IF logLevel < lvl
     THEN UNCHANGED <<queue, sendq, written, offered, exited>>
     ELSE IF lvl = FatalLevel THEN Fatal(p, Len(offered) + 1)
     ELSE Enqueue(p, Len(offered) + 1, lvl)
  /\ UNCHANGED <<logLevel, testMode>>

\* processLogs: an entry is received, which lets the first blocked producer
\* complete its send, and printLog writes it; an error of the write panics
ProcessLogs(writeOk) ==
  /\ ~exited
  /\ queue # <<>>
  /\ IF sendq = <<>>
     THEN queue' = Tail(queue) /\ sendq' = sendq
     ELSE queue' = Append(Tail(queue), Head(sendq).e) /\ sendq' = Tail(sendq)
  /\ IF writeOk
     THEN written' = Append(written, Head(queue).id) /\ exited' = exited
     ELSE written' = written /\ exited' = TRUE
  /\ UNCHANGED <<logLevel, testMode, offered>>

\* SetLevel
SetLevel(lvl) ==
  /\ ~exited
  /\ logLevel # lvl
  /\ Len(offered) < MaxEntries
  /\ logLevel' = lvl
  /\ UNCHANGED <<testMode, queue, sendq, written, offered, exited>>

InitLog ==
  /\ CoreUnused
  /\ PermUnused
  /\ RestartUnused
  /\ RaceUnused
  /\ RouteUnused
  /\ TokenUnused
  /\ HandlerUnused
  /\ RetryUnused
  /\ ChainUnused
  /\ SessionUnused
  /\ IPUnused
  /\ DepartUnused
  /\ StopUnused
  /\ LockingUnused
  /\ GCUnused
  /\ logLevel = InfoLevel
  /\ testMode \in BOOLEAN
  /\ queue = <<>>
  /\ sendq = <<>>
  /\ written = <<>>
  /\ offered = <<>>
  /\ exited = FALSE

NextLog ==
  \/ \E p \in Producers, lvl \in LogLevels : LogCall(p, lvl) /\ UNCHANGED notLog
  \/ \E writeOk \in BOOLEAN : ProcessLogs(writeOk) /\ UNCHANGED notLog
  \/ \E lvl \in {ErrorLevel, InfoLevel} : SetLevel(lvl) /\ UNCHANGED notLog

\* the consumer keeps running
SpecLog == InitLog /\ [][NextLog]_vars /\ WF_vars(ProcessLogs(TRUE) /\ UNCHANGED notLog)

IsPrefix(s, t) == Len(s) <= Len(t) /\ SubSeq(t, 1, Len(s)) = s

\* the ids of the entries that wait in the channel or in a blocked send
Pending == [i \in 1..Len(queue) |-> queue[i].id] \o [i \in 1..Len(sendq) |-> sendq[i].e.id]

\* C32: the entries that pass the level filter are written to the sink once
\* each and in the order they were logged, none is dropped when the queue
\* is full, and while the sink accepts the writes every one of them is
\* eventually written.
C32_LogDelivery ==
  /\ [](IsPrefix(written, offered))
  /\ [](~exited => written \o Pending = offered)
  /\ <>[](exited \/ written = offered)

(***************************************************************************)
(* One LeakyBucket charged by several goroutines.  Collector.Add calls     *)
(* b.Add after it has released the collector's lock, and LeakyBucket has   *)
(* no lock of its own: the reads and the write of p by one call interleave *)
(* with those of another.                                                  *)
(***************************************************************************)
\* goroutines in Collector.Add for one key
MaxChargers == 2
\* Add calls that return
MaxAdmissions == 3
\* the clock stops here
MaxRaceNow == 4

Chargers == 1..MaxChargers
NotAdding == [pc |-> "idle", amount |-> 0, count |-> 0, p |-> 0]

\* a LeakyBucket.Add that runs under a lock of the bucket
AddStartsAlone(g, amount) ==
  /\ adding[g].pc = "idle"
  /\ \A h \in Chargers : adding[h].pc = "idle"
  /\ Len(admissions) < MaxAdmissions
  /\ IF count(shared, rnow) >= shared.capacity
     THEN /\ admissions' = Append(admissions, 0)
          /\ adding' = adding
     ELSE /\ adding' = [adding EXCEPT ![g] = [pc |-> "counted", amount |-> amount,
                                               count |-> count(shared, rnow), p |-> 0]]
          /\ admissions' = admissions
  /\ UNCHANGED <<shared, rnow>>

\* LeakyBucket.Add: count := b.count(); a full bucket returns 0
AddStarts(g, amount) ==
  /\ adding[g].pc = "idle"
  /\ Len(admissions) < MaxAdmissions
  /\ IF count(shared, rnow) >= shared.capacity
     THEN /\ admissions' = Append(admissions, 0)
          /\ adding' = adding
     ELSE /\ adding' = [adding EXCEPT ![g] = [pc |-> "counted", amount |-> amount,
                                               count |-> count(shared, rnow), p |-> 0]]
          /\ admissions' = admissions
  /\ UNCHANGED <<shared, rnow>>

\* the amount the call admits: remaining := b.capacity - count
Admitted(a) == IF a.amount > shared.capacity - a.count THEN shared.capacity - a.count ELSE a.amount

\* LeakyBucket.Add: a drained bucket is reset, b.p = time.Now()
AddResets(g) ==
  /\ adding[g].pc = "counted"
  /\ adding' = [adding EXCEPT ![g].pc = "reset"]
  /\ shared' = [shared EXCEPT !.p = IF ~(rnow < shared.p) THEN rnow ELSE shared.p]
  /\ UNCHANGED <<rnow, admissions>>

\* LeakyBucket.Add: the read of b.p in b.p = b.p.Add(t)
AddReadsP(g) ==
  /\ adding[g].pc = "reset"
  /\ adding' = [adding EXCEPT ![g].pc = "read", ![g].p = shared.p]
  /\ UNCHANGED <<shared, rnow, admissions>>

\* LeakyBucket.Add: b.p = b.p.Add(t), and the return of the amount
AddWritesP(g) ==
  /\ adding[g].pc = "read"
  /\ shared' = [shared EXCEPT !.p = adding[g].p + Duration(Admitted(adding[g]), shared.rate)]
  /\ admissions' = Append(admissions, Admitted(adding[g]))
  /\ adding' = [adding EXCEPT ![g] = NotAdding]
  /\ UNCHANGED rnow

TickRace ==
  /\ rnow < MaxRaceNow
  /\ rnow' = rnow + 1
  /\ UNCHANGED <<shared, adding, admissions>>

InitRace ==
  /\ CoreUnused
  /\ PermUnused
  /\ RestartUnused
  /\ RouteUnused
  /\ TokenUnused
  /\ HandlerUnused
  /\ RetryUnused
  /\ ChainUnused
  /\ SessionUnused
  /\ IPUnused
  /\ DepartUnused
  /\ StopUnused
  /\ LockingUnused
  /\ GCUnused
  /\ LogUnused
  /\ shared \in [rate : {1}, capacity : {2, MaxCapacity}, p : {0}]
  /\ rnow = 0
  /\ adding = [g \in Chargers |-> NotAdding]
  /\ admissions = <<>>

NextRace ==
  \/ \E g \in Chargers, amount \in Amounts : AddStarts(g, amount) /\ UNCHANGED notRace
  \/ \E g \in Chargers : AddResets(g) /\ UNCHANGED notRace
  \/ \E g \in Chargers : AddReadsP(g) /\ UNCHANGED notRace
  \/ \E g \in Chargers : AddWritesP(g) /\ UNCHANGED notRace
  \/ TickRace /\ UNCHANGED notRace

SpecRace == InitRace /\ [][NextRace]_vars

\* C36: under every interleaving of concurrent Add calls for one key, the
\* fill of the bucket, ceil((p - now) * rate), never exceeds its capacity.
C36_NoOverAdmission == count(shared, rnow) <= shared.capacity

(***************************************************************************)
(* A server that is started, stopped and restarted.  Start registers the   *)
(* built-in middlewares with UseMiddleware, which appends to a slice of    *)
(* the package; Stop leaves the slice alone.  A request goes through the   *)
(* chain composed from the slice as it is when the request arrives.        *)
(***************************************************************************)
\* Start calls, Restart's included
MaxStarts == 3
\* the capacity of a client's bucket
RestartCapacity == 3

RestartClients == {"10.0.0.1", "10.0.0.2"}

\* how often m is in the slice
Occurrences(mws, m) == Cardinality({i \in 1..Len(mws) : mws[i] = m})

\* a Start that registers only what is not in the slice yet
RegisterOnce(mws, bruteForce) ==
  LET wanted == BuiltIn \o (IF bruteForce THEN <<"bruteForce">> ELSE <<>>)
  IN  mws \o SelectSeq(wanted, LAMBDA m : Occurrences(mws, m) = 0)

\* Server.Start: UseMiddleware(accessLogMiddleware, ...), and
\* UseMiddleware(bruteForceMiddleware) when brute-force protection is enabled
Register(mws, bruteForce) ==
  mws \o BuiltIn \o (IF bruteForce THEN <<"bruteForce">> ELSE <<>>)

\* the call of the first k middlewares of the slice around the handler, the
\* k-th outermost, for a client with the given tokens: bruteForceMiddleware
\* charges one token or rejects, accessLogMiddleware writes a line when next
\* has returned, the others call next
RECURSIVE Through(_, _, _)
Through(mws, k, tokens) ==
  IF k = 0 THEN [handled |-> 1, charged |-> 0, lines |-> 0]
  ELSE IF mws[k] = "bruteForce"
       THEN IF tokens = 0 THEN [handled |-> 0, charged |-> 0, lines |-> 0]
            ELSE LET r == Through(mws, k - 1, tokens - 1)
                 IN  [r EXCEPT !.charged = @ + 1]
  ELSE IF mws[k] = "accessLog"
       THEN LET r == Through(mws, k - 1, tokens)
            IN  [r EXCEPT !.lines = @ + 1]
  ELSE Through(mws, k - 1, tokens)

\* Server.Start, up to the return: the middlewares are registered, a new
\* collector replaces the one before, the serving goroutine is launched
RestartStart ==
  /\ mwList' = Register(mwList, lifecycle.bruteForce)
  /\ avail' = [ip \in RestartClients |-> RestartCapacity]
  /\ lifecycle' = [lifecycle EXCEPT !.at = "starting", !.starts = @ + 1]

\* Start by the application, on a server that is not running
StartCall ==
  /\ lifecycle.at \in {"new", "stopped"}
  /\ lifecycle.starts < MaxStarts
  /\ RestartStart
  /\ UNCHANGED lastReq

\* the goroutine Start launched: s.started = true, the listener serves
ListenBegins ==
  /\ lifecycle.at = "starting"
  /\ lifecycle' = [lifecycle EXCEPT !.at = "serving"]
  /\ UNCHANGED <<mwList, avail, lastReq>>

\* Stop by the application, on a running server
StopServing ==
  /\ lifecycle.at = "serving"
  /\ lifecycle' = [lifecycle EXCEPT !.at = "stopped"]
  /\ UNCHANGED <<mwList, avail, lastReq>>

\* Restart: Stop when s.started, then Start
RestartCall ==
  /\ lifecycle.at \in {"serving", "stopped"}
  /\ lifecycle.starts < MaxStarts
  /\ RestartStart
  /\ UNCHANGED lastReq

\* Server.handler for a request of a client that no middleware but
\* bruteForceMiddleware turns down
ServeRequest(ip) ==
  /\ lifecycle.at = "serving"
  /\ LET r == Through(mwList, Len(mwList), avail[ip])
     IN  /\ lastReq' = [served |-> TRUE, ip |-> ip, handled |-> r.handled,
                        charged |-> r.charged, lines |-> r.lines]
         /\ avail' = [avail EXCEPT ![ip] = @ - r.charged]
  /\ UNCHANGED <<mwList, lifecycle>>

\* a token leaks out of a client's bucket
Leak(ip) ==
  /\ lifecycle.at = "serving"
  /\ avail[ip] < RestartCapacity
  /\ avail' = [avail EXCEPT ![ip] = @ + 1]
  /\ UNCHANGED <<mwList, lifecycle, lastReq>>

InitRestart ==
  /\ CoreUnused
  /\ PermUnused
  /\ RouteUnused
  /\ TokenUnused
  /\ HandlerUnused
  /\ RetryUnused
  /\ ChainUnused
  /\ SessionUnused
  /\ IPUnused
  /\ DepartUnused
  /\ StopUnused
  /\ LockingUnused
  /\ GCUnused
  /\ LogUnused
  /\ RaceUnused
  /\ mwList = <<>>
  /\ lifecycle \in [at : {"new"}, bruteForce : BOOLEAN, starts : {0}]
  /\ avail = [ip \in RestartClients |-> RestartCapacity]
  /\ lastReq = [served |-> FALSE, ip |-> "", handled |-> 0, charged |-> 0, lines |-> 0]

NextRestart ==
  \/ StartCall /\ UNCHANGED notRestart
  \/ ListenBegins /\ UNCHANGED notRestart
  \/ StopServing /\ UNCHANGED notRestart
  \/ RestartCall /\ UNCHANGED notRestart
  \/ \E ip \in RestartClients : ServeRequest(ip) /\ UNCHANGED notRestart
  \/ \E ip \in RestartClients : Leak(ip) /\ UNCHANGED notRestart

SpecRestart == InitRestart /\ [][NextRestart]_vars

\* C37: after any sequence of Start, Stop and Restart calls each built-in
\* middleware is exactly once in the chain applied to a request; a request
\* that reaches the handler was charged one brute-force token (when the
\* protection is enabled) and produced one access-log line.
C37_ChainStableAcrossRestarts ==
  /\ lifecycle.starts > 0 =>
       /\ \A m \in Range(BuiltIn) : Occurrences(mwList, m) = 1
       /\ Occurrences(mwList, "bruteForce") = (IF lifecycle.bruteForce THEN 1 ELSE 0)
  /\ lastReq.served /\ lastReq.handled = 1 =>
       /\ lastReq.lines = 1
       /\ lastReq.charged = (IF lifecycle.bruteForce THEN 1 ELSE 0)

(***************************************************************************)
(* Permissions: a slice of names.  Grant appends, Can searches, Revoke     *)
(* deletes from the slice while it ranges over it: the range statement     *)
(* keeps the slice it started with (the same backing array, the length of  *)
(* the start), the deletions shorten *t and move its elements in place.    *)
(***************************************************************************)
\* the longest slice followed
MaxPermLen == 4
\* the longest argument list of a call
MaxPermArgs == 2

PermissionNames == {"read", "write", "admin"}
PermLists == UNION {[1..n -> PermissionNames] : n \in 1..MaxPermArgs}

\* Permissions.Can
Can(t, per) == \E i \in 1..Len(t) : t[i] = per

\* Permissions.Grant: every element of the list is appended
Grant(t, list) == t \o list

\* a Revoke of one name that deletes every element equal to it
RevokeEvery(t, p) ==
  [arr |-> SelectSeq(t, LAMBDA name : name # p),
   n |-> Len(SelectSeq(t, LAMBDA name : name # p)), panic |-> FALSE]

\* the body of Revoke's inner loop at position at (from 1) of the slice the
\* range started with: arr is the backing array, n the length of *t now
RECURSIVE RevokeFrom(_, _, _, _)
RevokeFrom(arr, n, at, p) ==
  IF at > Len(arr) THEN [arr |-> arr, n |-> n, panic |-> FALSE]
  ELSE IF arr[at] # p THEN RevokeFrom(arr, n, at + 1, p)
  \* idx == len(*t)-1: *t = (*t)[:idx]
  ELSE IF at = n THEN RevokeFrom(arr, n - 1, at + 1, p)
  \* (*t)[idx+1:] with idx+1 beyond len(*t): slice bounds out of range
  ELSE IF at > n THEN [arr |-> arr, n |-> n, panic |-> TRUE]
  \* append((*t)[:idx], (*t)[idx+1:]...): the elements behind idx move one
  \* place to the front, the last place keeps what it held
  ELSE RevokeFrom([i \in 1..Len(arr) |-> IF i >= at /\ i < n THEN arr[i + 1] ELSE arr[i]],
                  n - 1, at + 1, p)

\* Revoke for one name of its list: for idx, name := range *t
RevokeOne(t, p) == RevokeFrom(t, Len(t), 1, p)

\* Permissions.Revoke: the names of the list one after the other, until one
\* panics
RECURSIVE Revoke(_, _)
Revoke(t, per) ==
  IF per = <<>> THEN [t |-> t, panic |-> FALSE]
  ELSE LET r == RevokeOne(t, Head(per))
       IN  IF r.panic THEN [t |-> SubSeq(r.arr, 1, r.n), panic |-> TRUE]
           ELSE Revoke(SubSeq(r.arr, 1, r.n), Tail(per))

GrantCall(list) ==
  /\ ~permPanic
  /\ Len(perms) + Len(list) <= MaxPermLen
  /\ perms' = Grant(perms, list)
  /\ inForce' = inForce \cup Range(list)
  /\ UNCHANGED permPanic

RevokeCall(per) ==
  /\ ~permPanic
  /\ perms' = Revoke(perms, per).t
  /\ permPanic' = Revoke(perms, per).panic
  /\ inForce' = inForce \ Range(per)

InitPerm ==
  /\ CoreUnused
  /\ RouteUnused
  /\ TokenUnused
  /\ HandlerUnused
  /\ RetryUnused
  /\ ChainUnused
  /\ SessionUnused
  /\ IPUnused
  /\ DepartUnused
  /\ StopUnused
  /\ LockingUnused
  /\ GCUnused
  /\ LogUnused
  /\ RaceUnused
  /\ RestartUnused
  /\ perms = <<>>
  /\ inForce = {}
  /\ permPanic = FALSE

NextPerm ==
  \/ \E list \in PermLists : GrantCall(list) /\ UNCHANGED notPerm
  \/ \E per \in PermLists : RevokeCall(per) /\ UNCHANGED notPerm

SpecPerm == InitPerm /\ [][NextPerm]_vars

\* C38: after any sequence of Grant and Revoke calls, Can(p) is true exactly
\* when p was granted and not revoked afterwards, and no Revoke panics, also
\* when p was granted more than once.
C38_PermissionsAreASet ==
  /\ ~permPanic
  /\ \A p \in PermissionNames : Can(perms, p) <=> p \in inForce

====
